---- MODULE Spec2Model ----
(***************************************************************************)
(* A model of the concurrent load-generation and measurement engine of     *)
(* k8s_vGateway: the benchmark runner (src/benchmark/runner.rs), its       *)
(* metrics collector (src/benchmark/metrics.rs) and the parallel test      *)
(* executor and batch runner (src/executor/parallel.rs).                   *)
(*                                                                         *)
(* The specifications of the module:                                       *)
(*   Spec       the benchmark run: warmup, worker tasks, progress task,    *)
(*              the mutex-guarded collector, stop();                       *)
(*   SpecSpawn  the spawn loops of the two load-test paths with the        *)
(*              workers reduced to a count, for worker-pool sizes near     *)
(*              the ceiling of 100;                                        *)
(*   SpecExec   run_tests_parallel / run_all_parallel / run_rounds;        *)
(*   SpecAgg    aggregate_results, flaky_tests and stable_tests;           *)
(*   SpecErr    calls of ErrorStats::record;                               *)
(*   SpecCol    one MetricsCollector: record, snapshot, finalize, with     *)
(*              a clock in milliseconds;                                   *)
(*   SpecPat    LoadPattern::rps_at of a Step, Ramp or Spike pattern at    *)
(*              instants that do not decrease;                             *)
(*   SpecPct    LatencyStats::from_samples with its percentiles.           *)
(* Time is a clock in milliseconds that advances in steps of 5 s.          *)
(***************************************************************************)
EXTENDS Integers, Sequences, FiniteSets, TLC

VARIABLES
    \* ---- benchmark run (Spec) ----
    config,        \* BenchmarkConfig: pattern, duration_secs, concurrency, timeout_ms, warmup_secs
    run_pc,        \* position of the task executing BenchmarkRunner::run
    warm,          \* locals of run() and warmup(): start and result of the warmup request,
                   \* end of the sleep, warmup_performed
    running,       \* BenchmarkRunner.running (AtomicBool)
    now,           \* the clock (Instant::now), in ms
    start,         \* `start` of run_rate_limited / run_max_throughput / warmup
    collector,     \* the MetricsCollector behind Arc<Mutex<..>>
    mutex,         \* holder of the collector's mutex: 0 free, w a worker, ProgressId
    workers,       \* per spawned worker task: its position and its locals
    progress,      \* the progress task of run_max_throughput: position, wake time, last read
    metrics,       \* the Metrics run_load_test returned (NoMetrics before)
    run_result,    \* what run() returned: "none", "Ok"
    stop_phase,    \* the phase in which stop() was called ("none" if it was not)
    after_stop,    \* per worker: requests issued / outcomes recorded after a stop() in the main phase
    served,        \* outcomes the HTTP side has returned to workers: successes and failures
    \* ---- spawn loops (SpecSpawn) ----
    spawn_cfg,     \* pattern kind and concurrency of the run
    spawn_pc,      \* "loop", "join", "done"
    handles,       \* handles.len(): workers spawned so far
    live,          \* spawned workers that have not finished
    \* ---- parallel executor (SpecExec) ----
    exec_cfg,      \* the entry point called, max_concurrent, rounds
    batch_pc,      \* position of run_rounds / run_all_parallel
    round,         \* current round number
    client,        \* what HttpClient::with_timeout came to in run_tests_parallel: "none", "ok", "failed"
    permits,       \* available permits of the semaphore
    tasks,         \* per test case of the round: position and output of its task
    summaries,     \* the TestRoundSummary values pushed so far
    batch_result,  \* "none", "Ok", "Err"
    out_of_order,  \* some task of the current round completed before one of lower ordinal
    \* ---- aggregation of round summaries (SpecAgg) ----
    col_pc,        \* "off", "open", "finalized"
    col,           \* a MetricsCollector used by one thread
    col_now,       \* the clock (ms) that Instant::now() reads
    col_snaps,     \* the Metrics snapshot() returned since the last record call
    col_final,     \* the Metrics finalize() returned
    pat_pc,        \* "off", "ready", "evaluated", "panicked"
    pat,           \* a LoadPattern
    pat_total,     \* total_duration_secs, in ms
    pat_build,     \* "debug" (overflow checks) or "release" (wrapping)
    pat_prev,      \* the evaluation of rps_at before the last one
    pat_cur,       \* the last evaluation of rps_at: [elapsed, rps]
    pct_pc,        \* "off", "samples", "computed"
    pct_samples,   \* the latency samples (ms, f64) given to from_samples
    pct_stats,     \* the LatencyStats from_samples returned
    err_stats,     \* an ErrorStats that record() is called on
    err_log,       \* the arguments of the record() calls made, in order
    agg_pc,        \* "off", "start", "aggregated", "flaky", "done"
    agg_in,        \* the round summaries given to aggregate_results
    aggregate,     \* the AggregateResult
    flaky,         \* what flaky_tests() returned
    stable,        \* what stable_tests() returned
    il_pc,         \* "off", "recording", "snapshot"
    il_results,    \* per worker: the result and latency_ms of its request, to be recorded
    il_order,      \* the workers in the order their record calls took the mutex
    il_col,        \* the collector the workers record to
    il_metrics,    \* the Metrics snapshot() returned
    pace_cfg,      \* the pattern, concurrency and duration of a rate-limited run
    pace_now,      \* the clock of the paced run, in ms since `start`
    pace_workers,  \* per worker of the paced run: position, delay_ms and end of its sleep
    pace_sent      \* the instants at which the workers sent their requests, in order

bench_vars == <<config, run_pc, warm, running, now, start, collector, mutex, workers,
                progress, metrics, run_result, stop_phase, after_stop, served>>
spawn_vars == <<spawn_cfg, spawn_pc, handles, live>>
exec_vars  == <<exec_cfg, batch_pc, round, client, permits, tasks, summaries, batch_result,
                out_of_order>>
agg_vars   == <<agg_pc, agg_in, aggregate, flaky, stable>>
\* The variables of the specifications of the sequential computations.
err_vars   == <<err_stats, err_log>>
col_vars   == <<col_pc, col, col_now, col_snaps, col_final>>
pat_vars   == <<pat_pc, pat, pat_total, pat_build, pat_prev, pat_cur>>
pct_vars   == <<pct_pc, pct_samples, pct_stats>>
il_vars    == <<il_pc, il_results, il_order, il_col, il_metrics>>
pace_vars  == <<pace_cfg, pace_now, pace_workers, pace_sent>>
pure_vars  == <<agg_vars, err_vars, col_vars, pat_vars, pct_vars, il_vars, pace_vars>>
vars == <<bench_vars, spawn_vars, exec_vars, pure_vars>>

NoAggregate == [total_rounds |-> 0, test_stats |-> <<>>, test_pass_rates |-> <<>>,
                overall_pass_rate |-> "none"]
AggIdle == /\ agg_pc = "off" /\ agg_in = <<>> /\ aggregate = NoAggregate
           /\ flaky = <<>> /\ stable = <<>>
\* No ErrorStats under test.
ErrIdle == err_stats = <<>> /\ err_log = <<>>

\* No collector under test.
ColIdle == /\ col_pc = "off" /\ col = <<>> /\ col_now = 0
           /\ col_snaps = <<>> /\ col_final = <<>>

\* No evaluation of rps_at yet.
NoEval == [elapsed |-> 0, rps |-> -1]

\* No load pattern under test.
PatIdle == /\ pat_pc = "off" /\ pat = <<>> /\ pat_total = 0 /\ pat_build = "release"
           /\ pat_prev = NoEval /\ pat_cur = NoEval

\* No latency samples under test.
PctIdle == pct_pc = "off" /\ pct_samples = <<>> /\ pct_stats = <<>>

IlIdle == il_pc = "off" /\ il_results = <<>> /\ il_order = <<>> /\ il_col = <<>> /\ il_metrics = <<>>

PaceIdle == pace_cfg = <<>> /\ pace_now = 0 /\ pace_workers = <<>> /\ pace_sent = <<>>

PureIdle == AggIdle /\ ErrIdle /\ ColIdle /\ PatIdle /\ PctIdle /\ IlIdle /\ PaceIdle

\* Everything but the variables of one sequential computation.
NotAggVars == <<bench_vars, spawn_vars, exec_vars, err_vars, col_vars, pat_vars, pct_vars, il_vars, pace_vars>>
NotErrVars == <<bench_vars, spawn_vars, exec_vars, agg_vars, col_vars, pat_vars, pct_vars, il_vars, pace_vars>>
NotColVars == <<bench_vars, spawn_vars, exec_vars, agg_vars, err_vars, pat_vars, pct_vars, il_vars, pace_vars>>
NotPatVars == <<bench_vars, spawn_vars, exec_vars, agg_vars, err_vars, col_vars, pct_vars, il_vars, pace_vars>>
NotPctVars == <<bench_vars, spawn_vars, exec_vars, agg_vars, err_vars, col_vars, pat_vars, il_vars, pace_vars>>
NotIlVars == <<bench_vars, spawn_vars, exec_vars, agg_vars, err_vars, col_vars, pat_vars, pct_vars, pace_vars>>
NotPaceVars == <<bench_vars, spawn_vars, exec_vars, agg_vars, err_vars, col_vars, pat_vars, pct_vars, il_vars>>

-----------------------------------------------------------------------------
\* Bounds of the model.

\* Cap on the requests the workers of a run issue together (the worker loops
\* themselves are unbounded).
MaxReq == 4
\* Number of steps the clock takes.
MaxTicks == 4
\* The largest concurrency a run is configured with.
MaxConcurrency == 101
\* Number of test cases of the catalog that are dispatched (the first ones).
NumTests == 3
\* The longest list of round summaries that is aggregated.
MaxSummaries == 2
MaxErrCalls == 2
MaxColRecords == 2
MaxSnapshots == 3
MaxColClock == 3
\* The last instant rps_at is evaluated at, in steps of the clock (65 s).
MaxPatTicks == 13
\* The longest list of latency samples.
MaxSamples == 3
\* Number of workers whose record calls are interleaved.
MaxIlWorkers == 3
\* Cap on the requests the workers of a paced run send together.
MaxPaceReq == 6
\* Number of steps the clock of a paced run takes.
MaxPaceTicks == 8

\* Program constants.
MsPerSec == 1000
HardCap == 100
WarmupSleepMs == 100
ProgressSleepSecs == 5
\* The step of the clock: the 5 s of the progress task's sleep, which is also
\* the default request timeout and the default warmup.
TickMs == ProgressSleepSecs * MsPerSec
\* u32::MAX.  The model's u32 is 15 bits wide, so that a product of two of
\* them stays within the integers of the model checker.
U32Max == 32767
\* The bits of the significand of an f64 (53 in the source).  Ten bits keep
\* the products of two significands within the integers of the model checker.
F64Bits == 10

Min(a, b) == IF a <= b THEN a ELSE b
Max(a, b) == IF a >= b THEN a ELSE b

\* The f64 values computed from counts are quotients of small integers; they
\* are kept exact, as a numerator over a denominator. A denominator of 0 is
\* the outcome of an f64 division by 0.0 (infinity, or NaN for 0.0 / 0.0).
Rat(n, d) == [num |-> n, den |-> d]
RatLess(a, b) == a.num * b.den < b.num * a.den
RatEq(a, b) == a.num * b.den = b.num * a.den
RatAdd(a, b) == Rat(a.num * b.den + b.num * a.den, a.den * b.den)

\* f64 arithmetic where its rounding matters.  The model's f64 is a binary
\* floating-point number with a significand of F64Bits bits and rounding to
\* nearest, ties to even, as IEEE 754 prescribes for the 53 bits of the
\* source; a value is the quotient Rat(m, 2^k) in lowest terms.
Abs(n) == IF n < 0 THEN -n ELSE n

\* n / d scaled by powers of two into 2^(F64Bits-1) <= n / d < 2^F64Bits;
\* the value scaled is (n / d) * 2^k.
RECURSIVE FScale(_, _, _)
FScale(n, d, k) ==
    IF n \div (2 ^ F64Bits) >= d THEN FScale(n, 2 * d, k + 1)
    ELSE IF n \div (2 ^ (F64Bits - 1)) < d THEN FScale(2 * n, d, k - 1)
    ELSE [n |-> n, d |-> d, k |-> k]

\* m * 2^k in lowest terms.
RECURSIVE FNorm(_, _)
FNorm(m, k) ==
    IF k >= 0 THEN Rat(m * (2 ^ k), 1)
    ELSE IF m % 2 = 0 THEN FNorm(m \div 2, k + 1)
    ELSE Rat(m, 2 ^ (-k))

\* The f64 nearest to the quotient q (q.den > 0).
FRound(q) ==
    IF q.num = 0 THEN Rat(0, 1)
    ELSE LET sc == FScale(Abs(q.num), q.den, 0)
             m0 == sc.n \div sc.d
             r  == sc.n % sc.d
             m  == IF 2 * r > sc.d \/ (2 * r = sc.d /\ m0 % 2 = 1) THEN m0 + 1 ELSE m0
         IN FNorm(IF q.num < 0 THEN -m ELSE m, sc.k)

\* `n as f64`
F64(n) == FRound(Rat(n, 1))
\* The denominators of two f64 are powers of two: the larger is a common one.
FAdd(a, b) ==
    LET d == Max(a.den, b.den)
    IN FRound(Rat(a.num * (d \div a.den) + b.num * (d \div b.den), d))
FSub(a, b) ==
    LET d == Max(a.den, b.den)
    IN FRound(Rat(a.num * (d \div a.den) - b.num * (d \div b.den), d))
FMul(a, b) == FRound(Rat(a.num * b.num, a.den * b.den))
\* a / b for b > 0
FDiv(a, b) == FRound(Rat(a.num * b.den, a.den * b.num))
FMin(a, b) == IF RatLess(b, a) THEN b ELSE a
\* f64::floor and f64::ceil, `as usize`
FFloor(a) == a.num \div a.den
FCeil(a) == -((-a.num) \div a.den)
\* `as u32`: towards zero, saturating
FAsU32(a) == IF a.num <= 0 THEN 0 ELSE Min(a.num \div a.den, U32Max)

-----------------------------------------------------------------------------
\* LoadPattern::rps_at.  elapsed and total are in ms; elapsed_secs and
\* total_duration_secs are the f64 the caller made of them.
Secs(ms) == FRound(Rat(ms, MsPerSec))

\* A ramp without the `.min(1.0)`.
RampRps_unclamped(p, elapsed) ==
    LET ramp_progress == IF p.duration_secs = 0 THEN F64(1)
                    ELSE FDiv(Secs(elapsed), F64(p.duration_secs))
        delta == FSub(F64(p.end_rps), F64(p.start_rps))
    IN FAsU32(FAdd(F64(p.start_rps), FMul(delta, ramp_progress)))

\* progress = (elapsed_secs / duration_secs).min(1.0); x / 0.0 is +inf or NaN,
\* and both give 1.0 under f64::min.
RampRps(p, elapsed) ==
    LET ramp_progress == IF p.duration_secs = 0 THEN F64(1)
                    ELSE FMin(FDiv(Secs(elapsed), F64(p.duration_secs)), F64(1))
        delta == FSub(F64(p.end_rps), F64(p.start_rps))
    IN FAsU32(FAdd(F64(p.start_rps), FMul(delta, ramp_progress)))

\* steps = (elapsed_secs / step_interval_secs) as u32; the cast saturates:
\* NaN (0.0 / 0.0) is 0, +inf is u32::MAX.
StepSteps(p, elapsed) ==
    IF p.step_interval_secs = 0 THEN (IF elapsed = 0 THEN 0 ELSE U32Max)
    ELSE FAsU32(FDiv(Secs(elapsed), F64(p.step_interval_secs)))

\* `start_rps + steps * step_rps` leaves the range of u32.
StepOverflows(p, elapsed) ==
    \/ StepSteps(p, elapsed) * p.step_rps > U32Max
    \/ p.start_rps + StepSteps(p, elapsed) * p.step_rps > U32Max

\* The value of a build without overflow checks, where u32 arithmetic wraps.
StepRps(p, elapsed) ==
    Min((p.start_rps + StepSteps(p, elapsed) * p.step_rps) % (U32Max + 1), p.max_rps)

\* A spike that begins at the half of the run.
SpikeRps_from_half(p, elapsed, total) ==
    LET spike_start == FDiv(Secs(total), F64(2))
        spike_end == FAdd(spike_start, F64(p.spike_duration_secs))
    IN IF ~RatLess(Secs(elapsed), spike_start) /\ RatLess(Secs(elapsed), spike_end)
       THEN p.spike_rps ELSE p.base_rps

SpikeRps(p, elapsed, total) ==
    LET spike_start == FDiv(Secs(total), F64(3))
        spike_end == FAdd(spike_start, F64(p.spike_duration_secs))
    IN IF ~RatLess(Secs(elapsed), spike_start) /\ RatLess(Secs(elapsed), spike_end)
       THEN p.spike_rps ELSE p.base_rps

rps_at(p, elapsed, total) ==
    CASE p.kind = "Constant" -> p.rps
      [] p.kind = "Ramp" -> RampRps(p, elapsed)
      [] p.kind = "Step" -> StepRps(p, elapsed)
      [] p.kind = "Spike" -> SpikeRps(p, elapsed, total)
      [] p.kind = "Max" -> U32Max

\* The pacing delay of run_rate_limited (integer division of u32).
delay_ms(target_rps) ==
    IF target_rps > 0 /\ target_rps < U32Max THEN MsPerSec \div target_rps ELSE 0

-----------------------------------------------------------------------------
\* ErrorStats and MetricsCollector.

NoErrors == [connection_errors |-> 0, timeout_errors |-> 0, client_errors |-> 0,
             server_errors |-> 0, other_errors |-> 0]

\* A record that looks at the status code before the two flags.
ErrorStats_record_status_first(e, status_code, is_timeout, is_connection_error) ==
    IF status_code # 0 THEN
        (IF status_code >= 400 /\ status_code <= 499 THEN [e EXCEPT !.client_errors = @ + 1]
         ELSE IF status_code >= 500 /\ status_code <= 599 THEN [e EXCEPT !.server_errors = @ + 1]
         ELSE [e EXCEPT !.other_errors = @ + 1])
    ELSE IF is_timeout THEN [e EXCEPT !.timeout_errors = @ + 1]
    ELSE IF is_connection_error THEN [e EXCEPT !.connection_errors = @ + 1]
    ELSE [e EXCEPT !.other_errors = @ + 1]

\* ErrorStats::record; status_code = 0 stands for None.
ErrorStats_record(e, status_code, is_timeout, is_connection_error) ==
    IF is_timeout THEN [e EXCEPT !.timeout_errors = @ + 1]
    ELSE IF is_connection_error THEN [e EXCEPT !.connection_errors = @ + 1]
    ELSE IF status_code # 0 THEN
        (IF status_code >= 400 /\ status_code <= 499 THEN [e EXCEPT !.client_errors = @ + 1]
         ELSE IF status_code >= 500 /\ status_code <= 599 THEN [e EXCEPT !.server_errors = @ + 1]
         ELSE [e EXCEPT !.other_errors = @ + 1])
    ELSE [e EXCEPT !.other_errors = @ + 1]

ErrorStats_total(e) ==
    e.connection_errors + e.timeout_errors + e.client_errors + e.server_errors + e.other_errors

MetricsCollector_new(t) ==
    [latencies |-> <<>>, start_time |-> t, success_count |-> 0, fail_count |-> 0,
     errors |-> NoErrors]

\* A record_failure that counts the failure without keeping its latency.
record_failure_without_sample(c, latency_ms) == c

\* record_success and record_failure both begin `self.latencies.push(latency_ms)`.
record_success_push(c, latency_ms) == [c EXCEPT !.latencies = Append(@, latency_ms)]

record_failure_push(c, latency_ms) == [c EXCEPT !.latencies = Append(@, latency_ms)]

\* `self.success_count += 1` is a load and a store of the field; `loaded` is
\* the value the load returned.
record_success_store(c, loaded) == [c EXCEPT !.success_count = loaded + 1]

\* A record_failure that counts the failure and leaves the error buckets alone.
record_failure_no_bucket(c, loaded, status_code, is_timeout, is_connection_error) ==
    [c EXCEPT !.fail_count = loaded + 1]

\* `self.fail_count += 1; self.errors.record(..)`, the store of the increment
\* and the error bucket.
record_failure_store(c, loaded, status_code, is_timeout, is_connection_error) ==
    [c EXCEPT !.fail_count = loaded + 1,
              !.errors = ErrorStats_record(@, status_code, is_timeout, is_connection_error)]

request_count(c) == c.success_count + c.fail_count

\* Insertion of x into an ascending sequence, after its equals (a stable sort).
RECURSIVE InsertAsc(_, _)
InsertAsc(s, x) ==
    IF s = <<>> THEN <<x>>
    ELSE IF x < Head(s) THEN <<x>> \o s
    ELSE <<Head(s)>> \o InsertAsc(Tail(s), x)

RECURSIVE SumTo(_, _)
SumTo(f, n) == IF n = 0 THEN 0 ELSE f[n] + SumTo(f, n - 1)

RECURSIVE SortAsc(_)
SortAsc(s) == IF s = <<>> THEN <<>> ELSE InsertAsc(SortAsc(SubSeq(s, 1, Len(s) - 1)), s[Len(s)])

\* LatencyStats::from_samples: count, min and max of the sorted copy.
LatencyStats_from_samples(samples) ==
    IF samples = <<>> THEN [count |-> 0, min |-> 0, max |-> 0]
    ELSE LET sorted == SortAsc(samples)
         IN [count |-> Len(sorted), min |-> sorted[1], max |-> sorted[Len(sorted)]]

\* fn percentile(sorted, p): the interpolation between sorted[lower] and
\* sorted[upper] (indices from 0 in the source, from 1 here).
percentile(sorted, p) ==
    IF sorted = <<>> THEN Rat(0, 1)
    ELSE IF Len(sorted) = 1 THEN sorted[1]
    ELSE LET idx == FMul(FDiv(p, F64(100)), F64(Len(sorted) - 1))
             lower == FFloor(idx)
             upper == FCeil(idx)
             fraction == FSub(idx, F64(lower))
         IN IF upper >= Len(sorted) THEN sorted[Len(sorted)]
            ELSE FAdd(FMul(sorted[lower + 1], FSub(F64(1), fraction)),
                      FMul(sorted[upper + 1], fraction))

Percentiles_default ==
    [p50 |-> Rat(0, 1), p90 |-> Rat(0, 1), p95 |-> Rat(0, 1), p99 |-> Rat(0, 1),
     p999 |-> Rat(0, 1)]

\* Percentiles::from_sorted
Percentiles_from_sorted(latencies) ==
    IF latencies = <<>> THEN Percentiles_default
    ELSE [p50 |-> percentile(latencies, F64(50)),
          p90 |-> percentile(latencies, F64(90)),
          p95 |-> percentile(latencies, F64(95)),
          p99 |-> percentile(latencies, F64(99)),
          p999 |-> percentile(latencies, FRound(Rat(999, 10)))]

\* sort_by(partial_cmp) on f64 samples: insertion after the equals.
RECURSIVE InsertAscF(_, _)
InsertAscF(s, x) ==
    IF s = <<>> THEN <<x>>
    ELSE IF RatLess(x, Head(s)) THEN <<x>> \o s
    ELSE <<Head(s)>> \o InsertAscF(Tail(s), x)

RECURSIVE SortAscF(_)
SortAscF(s) ==
    IF s = <<>> THEN <<>> ELSE InsertAscF(SortAscF(SubSeq(s, 1, Len(s) - 1)), s[Len(s)])

\* `sorted.iter().sum()`: the f64 sum folds from 0.0 through the slice, left
\* to right, and rounds after every addition.
RECURSIVE FSum(_)
FSum(s) == IF s = <<>> THEN Rat(0, 1) ELSE FAdd(FSum(SubSeq(s, 1, Len(s) - 1)), s[Len(s)])

\* A from_samples that takes the mean over the samples in the order they were
\* pushed instead of over the sorted copy.
LatencyStats_mean_of_unsorted(samples) ==
    IF samples = <<>>
    THEN [min |-> Rat(0, 1), max |-> Rat(0, 1), mean |-> Rat(0, 1),
          percentiles |-> Percentiles_default, count |-> 0]
    ELSE LET sorted == SortAscF(samples)
         IN [min |-> sorted[1], max |-> sorted[Len(sorted)],
             mean |-> FDiv(FSum(samples), F64(Len(sorted))),
             percentiles |-> Percentiles_from_sorted(sorted), count |-> Len(sorted)]

\* LatencyStats::from_samples on f64 samples: min, max, mean and count of the
\* sorted copy and its percentiles (std_dev left out).
LatencyStats_from_f64_samples(samples) ==
    IF samples = <<>>
    THEN [min |-> Rat(0, 1), max |-> Rat(0, 1), mean |-> Rat(0, 1),
          percentiles |-> Percentiles_default, count |-> 0]
    ELSE LET sorted == SortAscF(samples)
         IN [min |-> sorted[1], max |-> sorted[Len(sorted)],
             mean |-> FDiv(FSum(sorted), F64(Len(sorted))),
             percentiles |-> Percentiles_from_sorted(sorted), count |-> Len(sorted)]

\* ThroughputStats::new: the counts, the duration and the rate taken over it.
ThroughputStats_new(total, successful, duration) ==
    [rps |-> Rat(total * MsPerSec, duration),
     total_requests |-> total, successful_requests |-> successful,
     failed_requests |-> total - successful, duration_ms |-> duration]

\* MetricsCollector::snapshot at clock t.
snapshot(c, t) ==
    [latency |-> LatencyStats_from_samples(c.latencies),
     throughput |-> ThroughputStats_new(c.success_count + c.fail_count, c.success_count,
                                        t - c.start_time),
     errors |-> c.errors]

\* MetricsCollector::finalize at clock t.
finalize(c, t) ==
    [latency |-> LatencyStats_from_samples(c.latencies),
     throughput |-> ThroughputStats_new(c.success_count + c.fail_count, c.success_count,
                                        t - c.start_time),
     errors |-> c.errors]

\* MetricsCollector::snapshot at clock t of a collector whose latencies are
\* f64 samples.
snapshot_f64(c, t) ==
    [latency |-> LatencyStats_from_f64_samples(c.latencies),
     throughput |-> ThroughputStats_new(c.success_count + c.fail_count, c.success_count,
                                        t - c.start_time),
     errors |-> c.errors]

NoMetrics == [latency |-> [count |-> 0, min |-> 0, max |-> 0],
              throughput |-> [rps |-> Rat(0, 1),
                              total_requests |-> 0, successful_requests |-> 0,
                              failed_requests |-> 0, duration_ms |-> 0],
              errors |-> NoErrors]

-----------------------------------------------------------------------------
\* The benchmark run: configuration and initial state.

ProgressId == 1000
NoResult == [status_code |-> 0, error |-> "none"]

\* What one request can come to: a response with a status code, or a failure
\* of the transport (HttpError::Timeout, ConnectionRefused, RequestFailed).
StatusCodes == {200, 500}
TransportErrors == {"Timeout", "Connect"}
Outcomes == {[status_code |-> s, error |-> "none"] : s \in StatusCodes}
            \cup {[status_code |-> 0, error |-> e] : e \in TransportErrors}

\* The configurations of the runs: a duration of 5 s, the default request
\* timeout (5000 ms), the default warmup (5 s) or none; the paced patterns are one with a delay (1 rps) and
\* one without (2000 rps); Max carries the concurrency the command line gives
\* both to the pattern and to the configuration (main.rs, run_benchmark).
Config(p, c, w) ==
    [pattern |-> p, duration_secs |-> 5, concurrency |-> c, timeout_ms |-> 5000,
     warmup_secs |-> w]
Configs ==
    {Config([kind |-> "Constant", rps |-> 1], 1, 5),
     Config([kind |-> "Constant", rps |-> 1], 2, 0),
     Config([kind |-> "Constant", rps |-> 2000], 2, 0),
     Config([kind |-> "Max", concurrency |-> 1], 1, 5),
     Config([kind |-> "Max", concurrency |-> 2], 2, 0)}

\* BenchmarkRunner::new: the client's timeout is max(timeout_ms / 1000, 1) seconds.
ClientTimeoutMs(cfg) == Max(cfg.timeout_ms \div MsPerSec, 1) * MsPerSec

\* The number of workers run_load_test spawns: run_max_throughput takes the
\* pattern's concurrency as it is, run_rate_limited clamps the configured one.
WorkerCount(cfg) ==
    IF cfg.pattern.kind = "Max" THEN cfg.pattern.concurrency
    ELSE Min(cfg.concurrency, HardCap)

Workers == 1 .. WorkerCount(config)
\* Requests issued by all workers so far.
TotalIssued == SumTo([w \in Workers |-> workers[w].issued], WorkerCount(config))
DurationMs == config.duration_secs * MsPerSec

\* The locals of run() and warmup() before the warmup.
NoWarmup == [req_start |-> 0, wake_at |-> 0, result |-> NoResult, warmup_performed |-> FALSE]

NewWorker == [pc |-> "unspawned", req_start |-> 0, result |-> NoResult, latency_ms |-> 0,
              loaded |-> 0, delay_ms |-> 0, wake_at |-> 0, issued |-> 0]
NoProgress == [pc |-> "unspawned", wake_at |-> 0, abort |-> FALSE, elapsed |-> 0, count |-> 0]

SpawnIdle == /\ spawn_cfg = [pattern |-> [kind |-> "Constant", rps |-> 1], concurrency |-> 0]
             /\ spawn_pc = "off" /\ handles = 0 /\ live = 0
ExecIdle == /\ exec_cfg = [entry |-> "none", max_concurrent |-> 0, rounds |-> 0]
            /\ batch_pc = "off" /\ round = 0 /\ client = "none" /\ permits = 0 /\ tasks = <<>>
            /\ summaries = <<>> /\ batch_result = "none" /\ out_of_order = FALSE

\* The runner after BenchmarkRunner::new, before run() is called.
BenchStart ==
    /\ run_pc = "idle"
    /\ warm = NoWarmup
    /\ running = FALSE
    /\ now = 0
    /\ start = 0
    /\ collector = MetricsCollector_new(0)
    /\ mutex = 0
    /\ workers = [w \in Workers |-> NewWorker]
    /\ progress = NoProgress
    /\ metrics = NoMetrics
    /\ run_result = "none"
    /\ stop_phase = "none"
    /\ after_stop = [w \in Workers |-> [issued |-> 0, recorded |-> 0]]
    /\ served = [ok |-> 0, failed |-> 0]

BenchInit == config \in Configs /\ BenchStart

\* The benchmark run is not part of the other two specifications.
BenchIdle ==
    /\ config = Config([kind |-> "Constant", rps |-> 1], 0, 0)
    /\ run_pc = "off"
    /\ warm = NoWarmup
    /\ running = FALSE
    /\ now = 0
    /\ start = 0
    /\ collector = MetricsCollector_new(0)
    /\ mutex = 0
    /\ workers = <<>>
    /\ progress = NoProgress
    /\ metrics = NoMetrics
    /\ run_result = "none"
    /\ stop_phase = "none"
    /\ after_stop = <<>>
    /\ served = [ok |-> 0, failed |-> 0]

Init == BenchInit /\ SpawnIdle /\ ExecIdle /\ PureIdle

\* The phase of the runner's state machine the run() task is in.
Phase ==
    CASE run_pc = "idle" -> "Idle"
      [] run_pc \in {"warmup", "warmup_get", "warmup_sleep", "store_true"} -> "Warmup"
      [] run_pc = "done" -> "Done"
      [] OTHER -> "Running"

-----------------------------------------------------------------------------
\* BenchmarkRunner::run, warmup and run_load_test (the task that called run()).

\* run(): the warmup phase is entered when warmup_secs > 0; without a warmup
\* warmup_performed is false.
RunBegin ==
    /\ run_pc = "idle"
    /\ IF config.warmup_secs > 0
       THEN run_pc' = "warmup" /\ start' = now
       ELSE run_pc' = "store_true" /\ start' = start
    /\ UNCHANGED <<config, warm, running, now, collector, mutex, workers, progress,
                   metrics, run_result, stop_phase, after_stop, served>>
    /\ UNCHANGED <<spawn_vars, exec_vars, pure_vars>>

\* A warmup of a single pass, whatever warmup_secs is.
WarmupSinglePass == FALSE

\* warmup(): `start.elapsed() < warmup_duration`
WarmupLoopCondition == now - start < config.warmup_secs * MsPerSec

\* warmup(): the loop condition, then the request is sent; when the loop is
\* over warmup() returns Ok(()) and run() has warmup_performed = true.
WarmupCheck ==
    /\ run_pc = "warmup"
    /\ IF WarmupLoopCondition
       THEN run_pc' = "warmup_get" /\ warm' = [warm EXCEPT !.req_start = now]
       ELSE run_pc' = "store_true" /\ warm' = [warm EXCEPT !.warmup_performed = TRUE]
    /\ UNCHANGED <<config, running, now, start, collector, mutex, workers, progress,
                   metrics, run_result, stop_phase, after_stop, served>>
    /\ UNCHANGED <<spawn_vars, exec_vars, pure_vars>>

\* `let _ = self.http_client.get(&url).await;` the request comes to a response
\* or to an error (a timeout once the client's timeout has run out), which
\* nothing looks at (warm.result keeps it for the properties only); then
\* sleep(100 ms).
WarmupResponse ==
    /\ run_pc = "warmup_get"
    /\ run_pc' = "warmup_sleep"
    /\ \E o \in Outcomes :
          /\ o.error = "Timeout" => now - warm.req_start >= ClientTimeoutMs(config)
          /\ warm' = [warm EXCEPT !.result = o, !.wake_at = now + WarmupSleepMs]
    /\ UNCHANGED <<config, running, now, start, collector, mutex, workers, progress,
                   metrics, run_result, stop_phase, after_stop, served>>
    /\ UNCHANGED <<spawn_vars, exec_vars, pure_vars>>

\* The sleep is over.
WarmupWake ==
    /\ run_pc = "warmup_sleep"
    /\ now >= warm.wake_at
    /\ run_pc' = "warmup"
    /\ UNCHANGED <<config, warm, running, now, start, collector, mutex, workers, progress,
                   metrics, run_result, stop_phase, after_stop, served>>
    /\ UNCHANGED <<spawn_vars, exec_vars, pure_vars>>

\* run(): self.running.store(true), then run_load_test creates the collector
\* and the path it takes reads `start`.
StoreTrue ==
    /\ run_pc = "store_true"
    /\ running' = TRUE
    /\ collector' = MetricsCollector_new(now)
    /\ start' = now
    /\ run_pc' = "spawn"
    /\ UNCHANGED <<config, warm, now, mutex, workers, progress,
                   metrics, run_result, stop_phase, after_stop, served>>
    /\ UNCHANGED <<spawn_vars, exec_vars, pure_vars>>

\* One iteration of `for _ in 0..concurrency { tokio::spawn(..) }`; after the
\* last one run_max_throughput spawns the progress task.
Spawn ==
    /\ run_pc = "spawn"
    /\ IF \E w \in Workers : workers[w].pc = "unspawned"
       THEN LET w == CHOOSE x \in Workers :
                        /\ workers[x].pc = "unspawned"
                        /\ \A y \in Workers : workers[y].pc = "unspawned" => x <= y
            IN /\ workers' = [workers EXCEPT ![w].pc = "loop"]
               /\ UNCHANGED <<run_pc, progress>>
       ELSE /\ run_pc' = "join"
            /\ progress' = IF config.pattern.kind = "Max"
                           THEN [progress EXCEPT !.pc = "check"] ELSE progress
            /\ UNCHANGED workers
    /\ UNCHANGED <<config, warm, running, now, start, collector, mutex,
                   metrics, run_result, stop_phase, after_stop, served>>
    /\ UNCHANGED <<spawn_vars, exec_vars, pure_vars>>

\* `for handle in handles { handle.await }`, and progress_handle.abort() on
\* the max-throughput path.
Join ==
    /\ run_pc = "join"
    /\ \A w \in Workers : workers[w].pc = "exit"
    /\ run_pc' = "snapshot"
    /\ progress' = IF config.pattern.kind = "Max"
                   THEN [progress EXCEPT !.abort = TRUE] ELSE progress
    /\ UNCHANGED <<config, warm, running, now, start, collector, mutex, workers,
                   metrics, run_result, stop_phase, after_stop, served>>
    /\ UNCHANGED <<spawn_vars, exec_vars, pure_vars>>

\* run_load_test: `collector.lock().await.snapshot()`; the guard is a
\* temporary of the statement.
LoadTestSnapshot ==
    /\ run_pc = "snapshot"
    /\ mutex = 0
    /\ metrics' = snapshot(collector, now)
    /\ run_pc' = "store_false"
    /\ UNCHANGED <<config, warm, running, now, start, collector, mutex, workers, progress,
                   run_result, stop_phase, after_stop, served>>
    /\ UNCHANGED <<spawn_vars, exec_vars, pure_vars>>

\* run(): self.running.store(false) and Ok(BenchmarkResult {..}).
RunFinish ==
    /\ run_pc = "store_false"
    /\ running' = FALSE
    /\ run_result' = "Ok"
    /\ run_pc' = "done"
    /\ UNCHANGED <<config, warm, now, start, collector, mutex, workers, progress,
                   metrics, stop_phase, after_stop, served>>
    /\ UNCHANGED <<spawn_vars, exec_vars, pure_vars>>

\* BenchmarkRunner::stop, callable from any other task at any time.
Stop ==
    /\ running \/ stop_phase # Phase
    /\ running' = FALSE
    /\ stop_phase' = Phase
    /\ UNCHANGED <<config, run_pc, warm, now, start, collector, mutex, workers, progress,
                   metrics, run_result, after_stop, served>>
    /\ UNCHANGED <<spawn_vars, exec_vars, pure_vars>>

-----------------------------------------------------------------------------
\* The worker tasks of run_rate_limited and run_max_throughput.

\* A collector shared without mutual exclusion.
LockNeverWaits == TRUE

\* A worker loop that does not read the running flag.
LoopIgnoresRunning == TRUE

\* A classification that takes every response for a success.
IsSuccess_any_response(status_code) == status_code >= 200

\* `collector.lock().await` returns once nobody holds the mutex.
MutexAvailable == mutex = 0

\* `running.load(Ordering::SeqCst)` at the head of the worker's while loop.
LoopCondition == running

\* `resp.status_code >= 200 && resp.status_code < 400`
IsSuccess(status_code) == status_code >= 200 /\ status_code < 400

\* The worker's `match result`: a response is a success by its status code
\* and goes to record(latency_ms, success, Some(status_code)); an Err(_) goes
\* to record_failure(latency_ms, None, false, true).
RecordsSuccess(result) == result.error = "none" /\ IsSuccess(result.status_code)

\* The three steps of the record call the worker makes under the guard.
worker_record_push(c, result, latency_ms) ==
    IF RecordsSuccess(result) THEN record_success_push(c, latency_ms)
    ELSE record_failure_push(c, latency_ms)

worker_record_load(c, result) ==
    IF RecordsSuccess(result) THEN c.success_count ELSE c.fail_count

worker_record_store(c, result, loaded) ==
    IF RecordsSuccess(result) THEN record_success_store(c, loaded)
    ELSE IF result.error = "none"
         THEN record_failure_store(c, loaded, result.status_code, FALSE, FALSE)
         ELSE record_failure_store(c, loaded, 0, FALSE, TRUE)

\* A worker that keeps the guard when its record call is over.
GuardKept(w) == mutex

\* `drop(coll)` on the rate-limited path, the end of the loop body (the scope
\* of `coll`) on the max-throughput path: the mutex is free again.
DropGuard(w) == IF mutex = w THEN 0 ELSE mutex

\* Whether the worker sleeps after recording: `if delay_ms > 0` on the
\* rate-limited path; the max-throughput loop has no sleep.
SleepsAfterRecord(w) == workers[w].delay_ms > 0

BumpAfterStop(w, field) ==
    IF stop_phase = "Running"
    THEN [after_stop EXCEPT ![w][field] = @ + 1]
    ELSE after_stop

\* The loop condition is evaluated.
W_LoopCheck(w) ==
    /\ workers[w].pc = "loop"
    /\ workers' = [workers EXCEPT ![w].pc = IF LoopCondition THEN "iter" ELSE "exit"]
    /\ UNCHANGED <<config, run_pc, warm, running, now, start, collector, mutex, progress,
                   metrics, run_result, stop_phase, after_stop, served>>
    /\ UNCHANGED <<spawn_vars, exec_vars, pure_vars>>

\* A worker loop that never finds the deadline reached.
DeadlineNever == FALSE

\* `elapsed >= duration` (rate-limited), `!(start.elapsed() < duration)` (max
\* throughput).
DeadlineReached == now - start >= DurationMs

\* The deadline check, the target rate and its delay, and the request is sent.
W_Iter(w) ==
    /\ workers[w].pc = "iter"
    /\ IF DeadlineReached
       THEN /\ workers' = [workers EXCEPT ![w].pc = "exit"]
            /\ UNCHANGED after_stop
       ELSE /\ TotalIssued < MaxReq
            /\ workers' = [workers EXCEPT
                   ![w].pc = "inflight",
                   ![w].req_start = now,
                   ![w].delay_ms = IF config.pattern.kind = "Max" THEN 0
                                   ELSE delay_ms(rps_at(config.pattern, now - start, DurationMs)),
                   ![w].issued = @ + 1]
            /\ after_stop' = BumpAfterStop(w, "issued")
    /\ UNCHANGED <<config, run_pc, warm, running, now, start, collector, mutex, progress,
                   metrics, run_result, stop_phase, served>>
    /\ UNCHANGED <<spawn_vars, exec_vars, pure_vars>>

\* The request comes to an outcome; latency_ms is taken.  A timeout is what
\* the client reports once its timeout has run out.
W_Response(w) ==
    /\ workers[w].pc = "inflight"
    /\ \E o \in Outcomes :
          /\ o.error = "Timeout" => now - workers[w].req_start >= ClientTimeoutMs(config)
          /\ workers' = [workers EXCEPT ![w].pc = "lockwait",
                                        ![w].result = o,
                                        ![w].latency_ms = now - workers[w].req_start]
          /\ served' = IF o.error = "none" /\ o.status_code \in 200 .. 399
                       THEN [served EXCEPT !.ok = @ + 1]
                       ELSE [served EXCEPT !.failed = @ + 1]
    /\ UNCHANGED <<config, run_pc, warm, running, now, start, collector, mutex, progress,
                   metrics, run_result, stop_phase, after_stop>>
    /\ UNCHANGED <<spawn_vars, exec_vars, pure_vars>>

\* `let mut coll = collector.lock().await;`
W_Lock(w) ==
    /\ workers[w].pc = "lockwait"
    /\ MutexAvailable
    /\ mutex' = w
    /\ workers' = [workers EXCEPT ![w].pc = "push"]
    /\ UNCHANGED <<config, run_pc, warm, running, now, start, collector, progress,
                   metrics, run_result, stop_phase, after_stop, served>>
    /\ UNCHANGED <<spawn_vars, exec_vars, pure_vars>>

\* The first statement of the record call: the latency is pushed.
W_Push(w) ==
    /\ workers[w].pc = "push"
    /\ collector' = worker_record_push(collector, workers[w].result, workers[w].latency_ms)
    /\ workers' = [workers EXCEPT ![w].pc = "load"]
    /\ UNCHANGED <<config, run_pc, warm, running, now, start, mutex, progress,
                   metrics, run_result, stop_phase, after_stop, served>>
    /\ UNCHANGED <<spawn_vars, exec_vars, pure_vars>>

\* The counter of the outcome's class is loaded.
W_Load(w) ==
    /\ workers[w].pc = "load"
    /\ workers' = [workers EXCEPT ![w].pc = "store",
                                  ![w].loaded = worker_record_load(collector, workers[w].result)]
    /\ UNCHANGED <<config, run_pc, warm, running, now, start, collector, mutex, progress,
                   metrics, run_result, stop_phase, after_stop, served>>
    /\ UNCHANGED <<spawn_vars, exec_vars, pure_vars>>

\* The incremented counter is stored (with the error bucket of a failure),
\* the guard is dropped, and the pacing sleep starts when there is a delay.
W_Store(w) ==
    /\ workers[w].pc = "store"
    /\ collector' = worker_record_store(collector, workers[w].result, workers[w].loaded)
    /\ mutex' = DropGuard(w)
    /\ workers' = [workers EXCEPT
           ![w].pc = IF SleepsAfterRecord(w) THEN "sleep" ELSE "loop",
           ![w].wake_at = IF SleepsAfterRecord(w) THEN now + workers[w].delay_ms ELSE 0,
           ![w].result = NoResult,
           ![w].latency_ms = 0,
           ![w].loaded = 0,
           ![w].req_start = 0]
    /\ after_stop' = BumpAfterStop(w, "recorded")
    /\ UNCHANGED <<config, run_pc, warm, running, now, start, progress,
                   metrics, run_result, stop_phase, served>>
    /\ UNCHANGED <<spawn_vars, exec_vars, pure_vars>>

\* sleep(Duration::from_millis(delay_ms)) is over.
W_Wake(w) ==
    /\ workers[w].pc = "sleep"
    /\ now >= workers[w].wake_at
    /\ workers' = [workers EXCEPT ![w].pc = "loop", ![w].wake_at = 0, ![w].delay_ms = 0]
    /\ UNCHANGED <<config, run_pc, warm, running, now, start, collector, mutex, progress,
                   metrics, run_result, stop_phase, after_stop, served>>
    /\ UNCHANGED <<spawn_vars, exec_vars, pure_vars>>

-----------------------------------------------------------------------------
\* The progress task of run_max_throughput.

\* `while start.elapsed() < duration { sleep(5 s) ...`
P_Check ==
    /\ progress.pc = "check"
    /\ progress' = IF now - start < DurationMs
                   THEN [progress EXCEPT !.pc = "sleep",
                                         !.wake_at = now + ProgressSleepSecs * MsPerSec]
                   ELSE [progress EXCEPT !.pc = "finished"]
    /\ UNCHANGED <<config, run_pc, warm, running, now, start, collector, mutex, workers,
                   metrics, run_result, stop_phase, after_stop, served>>
    /\ UNCHANGED <<spawn_vars, exec_vars, pure_vars>>

P_Wake ==
    /\ progress.pc = "sleep"
    /\ ~progress.abort
    /\ now >= progress.wake_at
    /\ progress' = [progress EXCEPT !.pc = "lockwait"]
    /\ UNCHANGED <<config, run_pc, warm, running, now, start, collector, mutex, workers,
                   metrics, run_result, stop_phase, after_stop, served>>
    /\ UNCHANGED <<spawn_vars, exec_vars, pure_vars>>

\* `let coll = collector_progress.lock().await;`
P_Lock ==
    /\ progress.pc = "lockwait"
    /\ ~progress.abort
    /\ MutexAvailable
    /\ mutex' = ProgressId
    /\ progress' = [progress EXCEPT !.pc = "locked"]
    /\ UNCHANGED <<config, run_pc, warm, running, now, start, collector, workers,
                   metrics, run_result, stop_phase, after_stop, served>>
    /\ UNCHANGED <<spawn_vars, exec_vars, pure_vars>>

\* elapsed(), request_count() and current_rps() are read, and the guard is dropped.
P_Read ==
    /\ progress.pc = "locked"
    /\ progress' = [progress EXCEPT !.pc = "check",
                                    !.elapsed = now - collector.start_time,
                                    !.count = request_count(collector)]
    /\ mutex' = IF mutex = ProgressId THEN 0 ELSE mutex
    /\ UNCHANGED <<config, run_pc, warm, running, now, start, collector, workers,
                   metrics, run_result, stop_phase, after_stop, served>>
    /\ UNCHANGED <<spawn_vars, exec_vars, pure_vars>>

\* progress_handle.abort() takes effect where the task awaits.
P_Aborted ==
    /\ progress.abort
    /\ progress.pc \in {"sleep", "lockwait"}
    /\ progress' = [progress EXCEPT !.pc = "aborted"]
    /\ UNCHANGED <<config, run_pc, warm, running, now, start, collector, mutex, workers,
                   metrics, run_result, stop_phase, after_stop, served>>
    /\ UNCHANGED <<spawn_vars, exec_vars, pure_vars>>

\* A task that can take a step of its own (it is runnable, not waiting for a
\* response, for the end of a sleep or for the mutex).
WorkerRunnable(w) ==
    \/ workers[w].pc \in {"loop", "push", "load", "store"}
    \/ workers[w].pc = "iter" /\ (DeadlineReached \/ TotalIssued < MaxReq)
    \/ workers[w].pc = "lockwait" /\ MutexAvailable
    \/ workers[w].pc = "sleep" /\ now >= workers[w].wake_at

MainRunnable ==
    \/ run_pc \in {"idle", "warmup", "store_true", "spawn", "store_false"}
    \/ run_pc = "warmup_sleep" /\ now >= warm.wake_at
    \/ run_pc = "join" /\ \A w \in Workers : workers[w].pc = "exit"
    \/ run_pc = "snapshot" /\ MutexAvailable

ProgressRunnable ==
    \/ progress.pc \in {"check", "locked"}
    \/ progress.pc = "sleep" /\ (progress.abort \/ now >= progress.wake_at)
    \/ progress.pc = "lockwait" /\ (progress.abort \/ MutexAvailable)

\* The clock advances by a step of 5 s.  Runnable tasks take their steps
\* first, and a request in flight that has reached the client's timeout comes
\* back first.
Tick ==
    /\ run_pc # "done"
    /\ now < MaxTicks * TickMs
    /\ ~MainRunnable /\ ~ProgressRunnable
    /\ \A w \in Workers : ~WorkerRunnable(w)
    /\ \A w \in Workers :
          workers[w].pc = "inflight" => now - workers[w].req_start < ClientTimeoutMs(config)
    /\ run_pc = "warmup_get" => now - warm.req_start < ClientTimeoutMs(config)
    /\ now' = now + TickMs
    /\ UNCHANGED <<config, run_pc, warm, running, start, collector, mutex, workers, progress,
                   metrics, run_result, stop_phase, after_stop, served>>
    /\ UNCHANGED <<spawn_vars, exec_vars, pure_vars>>

Next ==
    \/ RunBegin \/ WarmupCheck \/ WarmupResponse \/ WarmupWake
    \/ StoreTrue \/ Spawn \/ Join \/ LoadTestSnapshot \/ RunFinish
    \/ Stop
    \/ \E w \in Workers : W_LoopCheck(w)
    \/ \E w \in Workers : W_Iter(w)
    \/ \E w \in Workers : W_Response(w)
    \/ \E w \in Workers : W_Lock(w)
    \/ \E w \in Workers : W_Push(w)
    \/ \E w \in Workers : W_Load(w)
    \/ \E w \in Workers : W_Store(w)
    \/ \E w \in Workers : W_Wake(w)
    \/ P_Check \/ P_Wake \/ P_Lock \/ P_Read \/ P_Aborted
    \/ Tick

Spec == Init /\ [][Next]_vars

-----------------------------------------------------------------------------
\* Properties of the benchmark run (checked under Spec).

\* Workers between sending a request and the end of its record call.
Pending ==
    Cardinality({w \in Workers :
                    workers[w].pc \in {"inflight", "lockwait", "push", "load", "store"}})

\* C1: no update of the shared collector is lost.  At every moment the
\* collector's request count is the number of requests issued minus those
\* whose record call has not finished, and the Metrics the load test returns
\* count every request the workers issued: N workers that each completed M
\* requests give N * M.
C1_NoLostUpdates ==
    /\ request_count(collector) + Pending = TotalIssued
    /\ run_pc \in {"store_false", "done"} =>
          metrics.throughput.total_requests = TotalIssued

\* Two workers have each completed two requests and the run returned 2 * 2.
C1_Witness ==
    /\ run_pc = "done"
    /\ WorkerCount(config) = 2
    /\ \A w \in Workers : workers[w].issued = 2
    /\ metrics.throughput.total_requests = 4

CollectorConsistent(c) ==
    /\ request_count(c) = Len(c.latencies)
    /\ ErrorStats_total(c.errors) = c.fail_count

SnapshotConsistent(m) ==
    /\ m.throughput.total_requests = m.latency.count
    /\ m.throughput.total_requests =
          m.throughput.successful_requests + m.throughput.failed_requests
    /\ ErrorStats_total(m.errors) = m.throughput.failed_requests

\* C2: whenever no worker holds the collector's lock (it is free, or the
\* progress task reads under it), request_count equals success_count +
\* fail_count and the number of latency samples, so a snapshot taken then has
\* latency.count = total_requests = successful + failed; the Metrics the run
\* returned are such a snapshot.
C2_CollectorInvariant ==
    /\ mutex \notin Workers =>
          /\ CollectorConsistent(collector)
          /\ SnapshotConsistent(snapshot(collector, now))
    /\ SnapshotConsistent(metrics)

\* The progress task reads under the lock, after a failure was recorded, while
\* a worker waits for the lock with an outcome to record.
C2_Witness ==
    /\ mutex = ProgressId
    /\ progress.pc = "locked"
    /\ collector.fail_count > 0
    /\ \E w \in Workers : workers[w].pc = "lockwait"

\* C3 (as amended): after stop() is called while the run is in its main
\* phase, every worker issues at most one more request (one whose loop check
\* it had passed before the call) and records at most one more outcome; a
\* worker that is past its loop check has neither issued nor recorded
\* anything since the call, so every loop check made after the call leaves
\* the loop.
C3_StopWithinOneIteration ==
    \A w \in Workers :
       /\ after_stop[w].issued <= 1
       /\ after_stop[w].recorded <= 1
       /\ (stop_phase = "Running" /\ workers[w].pc = "iter") =>
             after_stop[w].issued = 0 /\ after_stop[w].recorded = 0

\* C3 as stated: after stop() no worker issues a new request.
C3_NoNewRequestAfterStop ==
    \A w \in Workers : after_stop[w].issued = 0

\* stop() came while a worker had a request in flight; the worker recorded
\* that outcome and left its loop without issuing another request.
C3_Witness ==
    /\ stop_phase = "Running"
    /\ \E w \in Workers :
          /\ workers[w].pc = "exit"
          /\ after_stop[w].recorded = 1
          /\ after_stop[w].issued = 0

\* C4: failures of requests never fail the run.  run() returns nothing but
\* Ok; the Metrics it returns count as successful exactly the 2xx/3xx
\* responses and as failed every other outcome (transport error, timeout,
\* other status); when every request failed, failed = total and successful = 0.
C4_FailuresNeverFailTheRun ==
    /\ run_result \in {"none", "Ok"}
    /\ run_pc = "done" =>
          /\ run_result = "Ok"
          /\ metrics.throughput.successful_requests = served.ok
          /\ metrics.throughput.failed_requests = served.failed
          /\ served.ok = 0 =>
                /\ metrics.throughput.failed_requests = metrics.throughput.total_requests
                /\ metrics.throughput.successful_requests = 0

\* Every request of the run failed, a worker went on after a failure, and the
\* run returned Ok.
C4_Witness ==
    /\ run_pc = "done"
    /\ run_result = "Ok"
    /\ served.ok = 0
    /\ metrics.throughput.failed_requests >= 2
    /\ metrics.errors.server_errors > 0
    /\ metrics.errors.connection_errors > 0
    /\ \E w \in Workers : workers[w].issued >= 2

\* C6 as stated: the deadline is checked after the request as well, so no
\* worker starts a pacing sleep once the deadline has passed.
C6_NoPacingSleepPastDeadline ==
    \A w \in Workers :
       workers[w].pc = "sleep" =>
          (workers[w].wake_at - workers[w].delay_ms) - start < DurationMs

\* C19: on the rate-limited path a worker whose pattern gave a bounded rate r
\* for the request it is busy with sleeps after recording it, for 1000 / r
\* ms; it goes on without a delay only when the rate is the unbounded
\* sentinel u32::MAX.
C19_BoundedRateIsPaced ==
    \A w \in Workers :
       (/\ config.pattern.kind # "Max"
        /\ workers[w].pc \in {"inflight", "lockwait", "push", "load", "store"}) =>
          LET r == rps_at(config.pattern, workers[w].req_start - start, DurationMs)
          IN r < U32Max =>
                /\ workers[w].delay_ms > 0
                /\ workers[w].delay_ms * r <= MsPerSec
                /\ (workers[w].delay_ms + 1) * r > MsPerSec

\* C20: when a worker records the outcome of its request, a timeout adds one
\* to timeout_errors and nothing to connection_errors, a failure to connect
\* adds one to connection_errors, and a response with a 4xx or 5xx status
\* adds one to client_errors or server_errors.
C20_FailureCausePreserved ==
    [][\A w \in Workers :
          (workers[w].pc = "store" /\ workers'[w].pc # "store") =>
             LET o == workers[w].result
                 before == collector.errors
                 after == collector'.errors
             IN /\ o.error = "Timeout" =>
                      /\ after.timeout_errors = before.timeout_errors + 1
                      /\ after.connection_errors = before.connection_errors
                /\ o.error = "Connect" =>
                      after.connection_errors = before.connection_errors + 1
                /\ (o.error = "none" /\ o.status_code \in 400 .. 499) =>
                      after.client_errors = before.client_errors + 1
                /\ (o.error = "none" /\ o.status_code \in 500 .. 599) =>
                      after.server_errors = before.server_errors + 1]_vars


\* C22: the collector's mutex is held only by a worker inside its record call
\* or by the progress task between its lock and the end of its reads; no
\* task holds it while it waits for a response, for the mutex or for the end
\* of a sleep, so whoever holds it can go on without waiting for anything.
C22_SmallCriticalSection ==
    /\ mutex \in {0, ProgressId} \cup Workers
    /\ \A w \in Workers : mutex = w <=> workers[w].pc \in {"push", "load", "store"}
    /\ mutex = ProgressId <=> progress.pc = "locked"

\* One worker waits for a response that has been outstanding for a clock
\* step while another worker is inside its record call.
C22_Witness ==
    \E w, v \in Workers :
       /\ workers[w].pc = "inflight" /\ now - workers[w].req_start >= TickMs
       /\ workers[v].pc = "store" /\ mutex = v

\* What C23 says of every state: before the main phase nothing is recorded
\* and no worker exists; run() never returns an error; when it has returned,
\* the total its Metrics give is the number of requests the workers of the
\* main phase issued, and warmup_performed is warmup_secs > 0.
WarmupInvisible ==
    /\ Phase \in {"Idle", "Warmup"} =>
          /\ collector = MetricsCollector_new(0)
          /\ metrics = NoMetrics
          /\ \A w \in Workers : workers[w].pc = "unspawned"
          /\ progress.pc = "unspawned"
    /\ run_result \in {"none", "Ok"}
    /\ run_pc = "done" =>
          /\ run_result = "Ok"
          /\ metrics.throughput.total_requests = TotalIssued
          /\ warm.warmup_performed <=> config.warmup_secs > 0

\* C23: the warmup is invisible to the measurement (WarmupInvisible); the
\* outcome of a warmup request, response or error, changes nothing but the
\* position of run(), which goes on to the sleep; and the main phase is
\* entered either without a warmup or from the warmup loop once
\* warmup_secs have passed since the warmup began.
C23_WarmupInvisible ==
    /\ []WarmupInvisible
    /\ [][(run_pc = "warmup_get" /\ run_pc' # "warmup_get") =>
            /\ run_pc' = "warmup_sleep"
            /\ UNCHANGED <<running, collector, mutex, workers, metrics, run_result>>]_vars
    /\ [][(run_pc # "store_true" /\ run_pc' = "store_true") =>
            \/ run_pc = "idle" /\ config.warmup_secs = 0
            \/ /\ run_pc = "warmup"
               /\ now - start >= config.warmup_secs * MsPerSec]_vars

\* A run whose warmup request failed has returned Ok, with the requests of
\* the main phase in its Metrics.
C23_Witness ==
    /\ run_pc = "done" /\ run_result = "Ok"
    /\ config.warmup_secs > 0 /\ warm.warmup_performed
    /\ warm.result.error = "Connect"
    /\ metrics.throughput.total_requests > 0
    /\ stop_phase = "none"

\* C25: once stop() has been called in the Warmup phase or in the main phase
\* the running flag stays cleared; after a stop() in the Warmup phase, when no
\* request of a worker can be in flight, no worker issues a request; after a
\* stop() in the main phase each worker issues at most the one request it
\* was about to send.
C25_StopNeverLost ==
    /\ stop_phase \in {"Warmup", "Running"} => ~running
    /\ stop_phase = "Warmup" => TotalIssued = 0
    /\ stop_phase = "Running" => \A w \in Workers : after_stop[w].issued <= 1

\* Runs with no worker at all and with one worker, on both paths, with and
\* without a warmup (SpecRun).
RunConfigs ==
    {Config([kind |-> "Constant", rps |-> 1], 0, 0),
     Config([kind |-> "Constant", rps |-> 1], 1, 5),
     Config([kind |-> "Max", concurrency |-> 0], 0, 0),
     Config([kind |-> "Max", concurrency |-> 1], 1, 5)}

InitRun == (config \in RunConfigs /\ BenchStart) /\ SpawnIdle /\ ExecIdle /\ PureIdle

\* The steps of a run in which nobody calls stop(): those of the task in
\* run(), of the workers and of the progress task, the return of a request,
\* the clock.
RunStep ==
    \/ RunBegin \/ WarmupCheck \/ WarmupResponse \/ WarmupWake
    \/ StoreTrue \/ Spawn \/ Join \/ LoadTestSnapshot \/ RunFinish
    \/ \E w \in Workers : W_LoopCheck(w) \/ W_Iter(w) \/ W_Response(w) \/ W_Lock(w)
                           \/ W_Push(w) \/ W_Load(w) \/ W_Store(w) \/ W_Wake(w)
    \/ P_Check \/ P_Wake \/ P_Lock \/ P_Read \/ P_Aborted
    \/ Tick

\* The steps of RunStep but the final snapshot of run_load_test.
RunStepButSnapshot ==
    \/ RunBegin \/ WarmupCheck \/ WarmupResponse \/ WarmupWake
    \/ StoreTrue \/ Spawn \/ Join \/ RunFinish
    \/ \E w \in Workers : W_LoopCheck(w) \/ W_Iter(w) \/ W_Response(w) \/ W_Lock(w)
                           \/ W_Push(w) \/ W_Load(w) \/ W_Store(w) \/ W_Wake(w)
    \/ P_Check \/ P_Wake \/ P_Lock \/ P_Read \/ P_Aborted
    \/ Tick

\* The step LoadTestSnapshot seen on run_pc alone: the main task takes the
\* free lock and goes on.
SnapshotTaken == run_pc = "snapshot" /\ mutex = 0 /\ run_pc' = "store_false"

\* Fair scheduling, requests that return and a clock that goes on: as long
\* as some step of the run can be taken, one is.
SpecRun ==
    InitRun /\ [][RunStep]_vars /\ WF_vars(RunStepButSnapshot) /\ WF_run_pc(SnapshotTaken)

ProgressEnded == progress.pc \in {"unspawned", "finished", "aborted"}

-----------------------------------------------------------------------------
\* The spawn loops of run_rate_limited and run_max_throughput with the workers
\* reduced to a count (SpecSpawn): how many worker tasks a run creates and how
\* many of them are alive, for concurrencies up to MaxConcurrency.

SpawnConfigs ==
    {[pattern |-> [kind |-> "Constant", rps |-> 1], concurrency |-> c] :
        c \in {0, 1, HardCap, MaxConcurrency}}
    \cup {[pattern |-> [kind |-> "Max", concurrency |-> c], concurrency |-> c] :
        c \in {0, 1, HardCap, MaxConcurrency}}

SpawnInit ==
    /\ spawn_cfg \in SpawnConfigs
    /\ spawn_pc = "loop"
    /\ handles = 0
    /\ live = 0

\* One iteration of `for _ in 0..concurrency`: a worker is spawned and its
\* handle pushed; the loop ends after `concurrency` iterations.
SpawnWorker ==
    /\ spawn_pc = "loop"
    /\ IF handles < WorkerCount(spawn_cfg)
       THEN handles' = handles + 1 /\ live' = live + 1 /\ spawn_pc' = spawn_pc
       ELSE spawn_pc' = "join" /\ UNCHANGED <<handles, live>>
    /\ UNCHANGED spawn_cfg
    /\ UNCHANGED <<bench_vars, exec_vars, pure_vars>>

\* A worker leaves its loop (deadline or stop) and its task ends.
WorkerExit ==
    /\ live > 0
    /\ live' = live - 1
    /\ UNCHANGED <<spawn_cfg, spawn_pc, handles>>
    /\ UNCHANGED <<bench_vars, exec_vars, pure_vars>>

\* `for handle in handles { let _ = handle.await; }`
JoinWorkers ==
    /\ spawn_pc = "join"
    /\ live = 0
    /\ spawn_pc' = "done"
    /\ UNCHANGED <<spawn_cfg, handles, live>>
    /\ UNCHANGED <<bench_vars, exec_vars, pure_vars>>

NextSpawn == SpawnWorker \/ WorkerExit \/ JoinWorkers

InitSpawn == BenchIdle /\ SpawnInit /\ ExecIdle /\ PureIdle

SpecSpawn == InitSpawn /\ [][NextSpawn]_vars

\* C5 as stated: for every load pattern, the Max pattern included, a run
\* spawns exactly min(configured concurrency, 100) workers and never has more
\* than 100 worker tasks alive.
C5_BoundedWorkerPool ==
    /\ handles <= HardCap
    /\ live <= HardCap
    /\ spawn_pc \in {"join", "done"} => handles = Min(spawn_cfg.concurrency, HardCap)

-----------------------------------------------------------------------------
\* The parallel executor and the batch runner (SpecExec): run_tests_parallel,
\* run_all_parallel and run_rounds.

\* TestCase::all(), the catalog in the order the source lists it.
TestCase_all ==
    <<"HostRouting", "PathRouting", "HeaderRouting", "TlsTermination", "HttpsRedirect",
      "BackendTls", "CanaryTraffic", "RateLimiting", "TimeoutRetry", "SessionAffinity",
      "UrlRewrite", "HeaderModifier", "CrossNamespace", "GrpcRouting", "HealthCheck",
      "LoadTest", "FailoverRecovery">>

\* TestCase::number()
number(test_case) ==
    CASE test_case = "HostRouting" -> 1
      [] test_case = "PathRouting" -> 2
      [] test_case = "HeaderRouting" -> 3
      [] test_case = "TlsTermination" -> 4
      [] test_case = "HttpsRedirect" -> 5
      [] test_case = "BackendTls" -> 6
      [] test_case = "CanaryTraffic" -> 7
      [] test_case = "RateLimiting" -> 8
      [] test_case = "TimeoutRetry" -> 9
      [] test_case = "SessionAffinity" -> 10
      [] test_case = "UrlRewrite" -> 11
      [] test_case = "HeaderModifier" -> 12
      [] test_case = "CrossNamespace" -> 13
      [] test_case = "GrpcRouting" -> 14
      [] test_case = "HealthCheck" -> 15
      [] test_case = "LoadTest" -> 16
      [] test_case = "FailoverRecovery" -> 17

\* The test cases a round dispatches.
Dispatched == SubSeq(TestCase_all, 1, NumTests)

\* What the execution of one test case comes to: tests::run_test returns
\* Ok(TestResult) with status Pass or Fail, or Err(e); or the task panics.
TestOutcomes == {"Pass", "Fail", "Err", "Panic"}

\* TestResult::error
TestResult_error(test_case) == [test_case |-> test_case, status |-> "Error"]

\* A task whose Err(e) is lost with the task instead of becoming a result.
TaskOutput_losing_errors(test_case, outcome) ==
    IF outcome \in {"Pass", "Fail"}
    THEN [ok |-> TRUE, value |-> [test_case |-> test_case, status |-> outcome]]
    ELSE [ok |-> FALSE, value |-> TestResult_error(test_case)]

\* TestRunner::run_test of the sequential runner: a test on the skip list is
\* not run; the outcome of tests::run_test is the result, an Err(e) becoming
\* TestResult::error.
TestRunner_run_test(test_case, skip_tests, outcome) ==
    IF number(test_case) \in skip_tests THEN [test_case |-> test_case, status |-> "Skip"]
    ELSE IF outcome = "Err" THEN TestResult_error(test_case)
    ELSE [test_case |-> test_case, status |-> outcome]

\* What awaiting the task's JoinHandle gives: Ok(value) when the task ran to
\* its end, where `match result` turned an Err(e) into TestResult::error, and
\* a JoinError when the task panicked.
TaskOutput(test_case, outcome) ==
    CASE outcome = "Panic" -> [ok |-> FALSE, value |-> TestResult_error(test_case)]
      [] outcome = "Err" -> [ok |-> TRUE, value |-> TestResult_error(test_case)]
      [] OTHER -> [ok |-> TRUE, value |-> [test_case |-> test_case, status |-> outcome]]

NewTask(test_case) ==
    [pc |-> "unspawned", test_case |-> test_case, round |-> 0, outcome |-> "none",
     output |-> [ok |-> FALSE, value |-> TestResult_error(test_case)]]

\* join_all(handles).await.into_iter().filter_map(|r| r.ok()).collect(): the
\* values of the handles that joined, in the order of the handles.
RECURSIVE join_all_ok(_)
join_all_ok(ts) ==
    IF ts = <<>> THEN <<>>
    ELSE IF Head(ts).output.ok THEN <<Head(ts).output.value>> \o join_all_ok(Tail(ts))
    ELSE join_all_ok(Tail(ts))

\* Insertion of r into a sequence sorted by number, after its equals.
RECURSIVE InsertByNumber(_, _)
InsertByNumber(s, r) ==
    IF s = <<>> THEN <<r>>
    ELSE IF number(r.test_case) < number(Head(s).test_case) THEN <<r>> \o s
    ELSE <<Head(s)>> \o InsertByNumber(Tail(s), r)

\* A sort that puts the highest test number first.
RECURSIVE sort_descending(_)
sort_descending(results) ==
    IF results = <<>> THEN <<>>
    ELSE LET rest == sort_descending(Tail(results))
             before == SelectSeq(rest, LAMBDA x : number(x.test_case) > number(Head(results).test_case))
             after == SelectSeq(rest, LAMBDA x : number(x.test_case) <= number(Head(results).test_case))
         IN before \o <<Head(results)>> \o after

\* sorted_results.sort_by_key(|r| r.test_case.number()), a stable sort.
RECURSIVE sort_by_key_number(_)
sort_by_key_number(results) ==
    IF results = <<>> THEN <<>>
    ELSE InsertByNumber(sort_by_key_number(SubSeq(results, 1, Len(results) - 1)),
                        results[Len(results)])

CountStatus(results, status) ==
    Cardinality({i \in 1 .. Len(results) : results[i].status = status})

\* TestRoundSummary::new
TestRoundSummary_new(r, results) ==
    [round |-> r, total |-> Len(results),
     passed |-> CountStatus(results, "Pass"), failed |-> CountStatus(results, "Fail"),
     skipped |-> CountStatus(results, "Skip"), errors |-> CountStatus(results, "Error"),
     results |-> results]

\* The calls of the model: run_rounds of a BatchRunner with 0 to 2 rounds, and
\* run_all_parallel of a ParallelExecutor (one round, `rounds` is not read).
ExecConfigs ==
    {[entry |-> "run_rounds", max_concurrent |-> m, rounds |-> n] :
        m \in {0, 1, 2}, n \in {0, 1, 2}}
    \cup {[entry |-> "run_all_parallel", max_concurrent |-> m, rounds |-> 1] :
        m \in {1, 2}}

ExecInit ==
    /\ exec_cfg \in ExecConfigs
    /\ batch_pc = "loop"
    /\ round = 0
    /\ client = "none"
    /\ permits = 0
    /\ tasks = <<>>
    /\ summaries = <<>>
    /\ batch_result = "none"
    /\ out_of_order = FALSE

\* Rounds the call makes: `for round in 1..=self.rounds`, or the single
\* run_tests_parallel call of run_all_parallel.
TotalRounds == IF exec_cfg.entry = "run_all_parallel" THEN 1 ELSE exec_cfg.rounds

\* The round number the summary is built with: the literal 1 in
\* run_all_parallel, the loop variable in run_rounds.
SummaryRound == IF exec_cfg.entry = "run_all_parallel" THEN 1 ELSE round

\* A wait for a permit that never waits.
PermitAlwaysGranted == TRUE

\* A join that does not wait for the tasks.
JoinsAtOnce == TRUE

\* `semaphore.acquire().await` returns when a permit is available.
SemaphoreHasPermit == permits > 0

\* join_all(handles).await returns when every task has ended.
AllJoined == \A i \in DOMAIN tasks : tasks[i].pc = "done"

\* The next round begins, and run_tests_parallel creates the semaphore and
\* the client and has its tasks to spawn.
RoundBegin ==
    /\ batch_pc = "loop"
    /\ round < TotalRounds
    /\ round' = round + 1
    /\ client' = "ok"
    /\ permits' = exec_cfg.max_concurrent
    /\ tasks' = [i \in 1 .. NumTests |-> NewTask(Dispatched[i])]
    /\ out_of_order' = FALSE
    /\ batch_pc' = "spawn"
    /\ UNCHANGED <<exec_cfg, summaries, batch_result>>
    /\ UNCHANGED <<bench_vars, spawn_vars, pure_vars>>

\* The next round begins and `HttpClient::with_timeout(..)?` fails: the error
\* is returned by run_tests_parallel, before any task is spawned, and by its
\* caller.
ClientBuildFails ==
    /\ batch_pc = "loop"
    /\ round < TotalRounds
    /\ round' = round + 1
    /\ client' = "failed"
    /\ permits' = exec_cfg.max_concurrent
    /\ tasks' = <<>>
    /\ batch_result' = "Err"
    /\ batch_pc' = "returned"
    /\ UNCHANGED <<exec_cfg, summaries, out_of_order>>
    /\ UNCHANGED <<bench_vars, spawn_vars, pure_vars>>

\* The loop over the rounds is over: Ok(summaries) / Ok(summary).
BatchReturn ==
    /\ batch_pc = "loop"
    /\ round >= TotalRounds
    /\ batch_result' = "Ok"
    /\ batch_pc' = "returned"
    /\ UNCHANGED <<exec_cfg, round, client, permits, tasks, summaries, out_of_order>>
    /\ UNCHANGED <<bench_vars, spawn_vars, pure_vars>>

\* One iteration of `for test_case in test_cases { tokio::spawn(..) }`.
SpawnTask ==
    /\ batch_pc = "spawn"
    /\ IF \E i \in DOMAIN tasks : tasks[i].pc = "unspawned"
       THEN LET i == CHOOSE x \in DOMAIN tasks :
                        /\ tasks[x].pc = "unspawned"
                        /\ \A y \in DOMAIN tasks : tasks[y].pc = "unspawned" => x <= y
            IN /\ tasks' = [tasks EXCEPT ![i].pc = "acquire", ![i].round = round]
               /\ UNCHANGED batch_pc
       ELSE /\ batch_pc' = "join"
            /\ UNCHANGED tasks
    /\ UNCHANGED <<exec_cfg, round, client, permits, summaries, batch_result, out_of_order>>
    /\ UNCHANGED <<bench_vars, spawn_vars, pure_vars>>

\* `let _permit = semaphore.acquire().await.unwrap();`
T_Acquire(i) ==
    /\ tasks[i].pc = "acquire"
    /\ SemaphoreHasPermit
    /\ permits' = permits - 1
    /\ tasks' = [tasks EXCEPT ![i].pc = "running"]
    /\ UNCHANGED <<exec_cfg, batch_pc, round, client, summaries, batch_result, out_of_order>>
    /\ UNCHANGED <<bench_vars, spawn_vars, pure_vars>>

\* tests::run_test comes to its outcome, the task ends with its output and
\* the permit is dropped.
T_Finish(i) ==
    /\ tasks[i].pc = "running"
    /\ \E o \in TestOutcomes :
          tasks' = [tasks EXCEPT ![i].pc = "done",
                                 ![i].outcome = o,
                                 ![i].output = TaskOutput(tasks[i].test_case, o)]
    /\ permits' = permits + 1
    /\ out_of_order' = (out_of_order \/ \E j \in DOMAIN tasks : j < i /\ tasks[j].pc # "done")
    /\ UNCHANGED <<exec_cfg, batch_pc, round, client, summaries, batch_result>>
    /\ UNCHANGED <<bench_vars, spawn_vars, pure_vars>>

\* join_all returns; the caller sorts the results by test number, builds the
\* round's TestRoundSummary and keeps it.
RoundEnd ==
    /\ batch_pc = "join"
    /\ AllJoined
    /\ summaries' = Append(summaries,
                           TestRoundSummary_new(SummaryRound,
                                                sort_by_key_number(join_all_ok(tasks))))
    /\ batch_pc' = "loop"
    /\ UNCHANGED <<exec_cfg, round, client, permits, tasks, batch_result, out_of_order>>
    /\ UNCHANGED <<bench_vars, spawn_vars, pure_vars>>

NextExec ==
    \/ RoundBegin \/ ClientBuildFails \/ BatchReturn
    \/ SpawnTask
    \/ \E i \in DOMAIN tasks : T_Acquire(i)
    \/ \E i \in DOMAIN tasks : T_Finish(i)
    \/ RoundEnd

InitExec == BenchIdle /\ SpawnIdle /\ ExecInit /\ PureIdle

SpecExec == InitExec /\ [][NextExec]_vars

-----------------------------------------------------------------------------
\* Properties of the parallel executor and the batch runner (checked under
\* SpecExec).

\* Test cases that hold a permit and have not returned their result.
Executing == {i \in DOMAIN tasks : tasks[i].pc = "running"}

\* The summary of the current round has been built.
RoundComplete == round > 0 /\ Len(summaries) = round

LastSummary == summaries[Len(summaries)]

\* The TestResult a test case's outcome stands for.
ResultOf(t) ==
    [test_case |-> t.test_case, status |-> IF t.outcome = "Err" THEN "Error" ELSE t.outcome]

Holds(results, r) == \E a \in 1 .. Len(results) : results[a] = r

\* C7: at every instant of a run_tests_parallel call the number of test cases
\* that are executing is at most max_concurrent; the permits that are free and
\* those that are held add up to max_concurrent.
C7_SemaphoreBound ==
    /\ Cardinality(Executing) <= exec_cfg.max_concurrent
    /\ permits >= 0
    /\ round > 0 => permits + Cardinality(Executing) = exec_cfg.max_concurrent

\* Two test cases execute under two permits while a third waits for one.
C7_Witness ==
    /\ exec_cfg.max_concurrent = 2
    /\ Cardinality(Executing) = 2
    /\ permits = 0
    /\ \E i \in DOMAIN tasks : tasks[i].pc = "acquire"

\* C8: the results of every TestRoundSummary, of run_all_parallel and of each
\* round of run_rounds, are in ascending order of TestCase::number(), and the
\* list is determined by the outcomes of the test cases alone: it holds the
\* result of exactly the test cases that returned one, whatever the order in
\* which they completed.
C8_DeterministicOrder ==
    /\ \A k \in 1 .. Len(summaries) :
          \A a, b \in 1 .. Len(summaries[k].results) :
             a < b => number(summaries[k].results[a].test_case)
                         < number(summaries[k].results[b].test_case)
    /\ RoundComplete =>
          /\ Len(LastSummary.results) =
                Cardinality({i \in DOMAIN tasks : tasks[i].outcome # "Panic"})
          /\ \A i \in DOMAIN tasks :
                tasks[i].outcome # "Panic" => Holds(LastSummary.results, ResultOf(tasks[i]))

\* A round whose test cases all returned a result, one of them completing
\* before a test case of lower number.
C8_Witness ==
    /\ RoundComplete
    /\ out_of_order
    /\ LastSummary.total = NumTests

\* C9: the rounds of run_rounds do not overlap.  Between two rounds and after
\* the last one no test case is in progress; every test case in progress
\* belongs to the current round; the k-th summary carries round = k, and a
\* call that returns Ok has built exactly its N summaries.
C9_RoundsSequential ==
    /\ batch_pc \in {"loop", "returned"} => \A i \in DOMAIN tasks : tasks[i].pc = "done"
    /\ \A i \in DOMAIN tasks : tasks[i].pc \in {"acquire", "running"} => tasks[i].round = round
    /\ \A k \in 1 .. Len(summaries) : summaries[k].round = k
    /\ batch_result = "Ok" => Len(summaries) = TotalRounds

\* run_rounds with two rounds has returned Ok with the summaries of rounds 1 and 2.
C9_Witness ==
    /\ exec_cfg.entry = "run_rounds"
    /\ exec_cfg.rounds = 2
    /\ batch_result = "Ok"
    /\ Len(summaries) = 2
    /\ summaries[1].round = 1 /\ summaries[2].round = 2

\* C10: an error of a test case is absorbed.  The task of a test case that
\* returned Err(e) yields a TestResult with status Error for that test case
\* (and so does the sequential TestRunner::run_test); the round's summary
\* holds that result and the own result of every other test case that
\* returned one; the call returns Err only when the HTTP client could not be
\* built.
C10_ErrorsAbsorbed ==
    /\ \A i \in DOMAIN tasks :
          tasks[i].outcome = "Err" =>
             tasks[i].output = [ok |-> TRUE,
                                value |-> [test_case |-> tasks[i].test_case,
                                           status |-> "Error"]]
    /\ \A i \in 1 .. NumTests :
          TestRunner_run_test(Dispatched[i], {}, "Err") =
             [test_case |-> Dispatched[i], status |-> "Error"]
    /\ RoundComplete =>
          /\ LastSummary.errors =
                Cardinality({i \in DOMAIN tasks : tasks[i].outcome = "Err"})
          /\ \A i \in DOMAIN tasks :
                tasks[i].outcome \in {"Pass", "Fail", "Err"} =>
                   Holds(LastSummary.results, ResultOf(tasks[i]))
    /\ batch_result = "Err" => client = "failed"

\* A test case of round 1 returned an error, its siblings contributed their
\* results, round 2 ran and run_rounds returned Ok.
C10_Witness ==
    /\ exec_cfg.entry = "run_rounds"
    /\ batch_result = "Ok"
    /\ Len(summaries) = 2
    /\ summaries[1].errors >= 1
    /\ summaries[1].passed >= 1
    /\ summaries[1].total = NumTests
    /\ summaries[2].total = NumTests


\* The scheduling of the tokio runtime: the task that runs run_rounds or
\* run_all_parallel and every spawned task take their steps; the semaphore
\* hands out its permits in the order of the acquire calls, so a task that
\* can get a permit again and again does get one; every test case comes to an
\* outcome.  (Nothing obliges HttpClient::with_timeout to fail.)
ExecFairness ==
    /\ WF_vars(RoundBegin \/ BatchReturn \/ SpawnTask \/ RoundEnd)
    /\ \A i \in 1 .. NumTests :
          /\ SF_vars(i \in DOMAIN tasks /\ T_Acquire(i))
          /\ WF_vars(i \in DOMAIN tasks /\ T_Finish(i))

SpecExecFair == SpecExec /\ ExecFairness

\* C24: every test case that was dispatched gets a permit, runs to its end
\* and gives the permit back, and the call returns, whatever max_concurrent
\* is.
C24_EveryDispatchedTestRuns ==
    /\ \A i \in 1 .. NumTests :
          (i \in DOMAIN tasks /\ tasks[i].pc = "acquire")
             ~> (i \in DOMAIN tasks /\ tasks[i].pc = "done" /\ permits > 0)
    /\ <>(batch_pc = "returned")

\* C29: the round's result list holds one TestResult for every dispatched
\* test case: every TestRoundSummary has total = NumTests (the catalog) and
\* total = passed + failed + skipped + errors, however the tasks ended (a
\* result, an error, a panic reported as a join error).
C29_FixedSizeRounds ==
    \A k \in 1 .. Len(summaries) :
        /\ summaries[k].total = NumTests
        /\ summaries[k].total = summaries[k].passed + summaries[k].failed
                                   + summaries[k].skipped + summaries[k].errors

\* The skip lists of a TestConfig: sets of test ordinals.
SkipLists == SUBSET {number(Dispatched[i]) : i \in 1 .. NumTests}

\* One round of the sequential runner (TestRunner::run_rounds, run_all): for
\* each test case of TestCase::all() in turn, run_test with the outcome that
\* the test case came to in the parallel round.
SequentialRound(skip_tests) ==
    [i \in 1 .. NumTests |->
        TestRunner_run_test(Dispatched[i], skip_tests, tasks[i].outcome)]

\* C30: for the same catalog, skip list and outcome of each test, a round of
\* the parallel executor yields the list of (test case, status) that a round
\* of the sequential runner yields; a test case on the skip list has status
\* Skip on both paths.
C30_ParallelMatchesSequential ==
    (/\ RoundComplete
     /\ \A i \in DOMAIN tasks : tasks[i].outcome \in {"Pass", "Fail", "Err"})
       => \A skip_tests \in SkipLists :
             LastSummary.results = SequentialRound(skip_tests)

\* The same with the empty skip list only.
AgreeWithoutSkipList ==
    (/\ RoundComplete
     /\ \A i \in DOMAIN tasks : tasks[i].outcome \in {"Pass", "Fail", "Err"})
       => LastSummary.results = SequentialRound({})
-----------------------------------------------------------------------------
\* BatchRunner::aggregate_results and AggregateResult (SpecAgg).

\* TestStats::default()
TestStats_default == [passes |-> 0, failures |-> 0, skips |-> 0, errors |-> 0]

EmptyMap == [tc \in {} |-> TestStats_default]

\* One iteration of the inner loop of aggregate_results:
\* `test_stats.entry(result.test_case).or_default()` and the match on the status.
tally_result(stats, result) ==
    LET cur == IF result.test_case \in DOMAIN stats THEN stats[result.test_case]
               ELSE TestStats_default
        new == CASE result.status = "Pass" -> [cur EXCEPT !.passes = @ + 1]
                 [] result.status = "Fail" -> [cur EXCEPT !.failures = @ + 1]
                 [] result.status = "Skip" -> [cur EXCEPT !.skips = @ + 1]
                 [] result.status = "Error" -> [cur EXCEPT !.errors = @ + 1]
    IN [tc \in DOMAIN stats \cup {result.test_case} |->
           IF tc = result.test_case THEN new ELSE stats[tc]]

\* `for result in &summary.results`
RECURSIVE tally_results(_, _)
tally_results(stats, results) ==
    IF results = <<>> THEN stats
    ELSE tally_results(tally_result(stats, Head(results)), Tail(results))

\* `for summary in summaries`
RECURSIVE tally_summaries(_, _)
tally_summaries(stats, sums) ==
    IF sums = <<>> THEN stats
    ELSE tally_summaries(tally_results(stats, Head(sums).results), Tail(sums))

\* A pass rate whose denominator counts the skips as well.
pass_rate_counting_skips(stats) ==
    LET total == stats.passes + stats.failures + stats.skips + stats.errors
    IN IF total > 0 THEN Rat(100 * stats.passes, total) ELSE Rat(0, 1)

\* The closure of aggregate_results that gives a test its pass rate:
\* (passes / total) * 100.0 over total = passes + failures + errors, or 0.0.
pass_rate_of(stats) ==
    LET total == stats.passes + stats.failures + stats.errors
    IN IF total > 0 THEN Rat(100 * stats.passes, total) ELSE Rat(0, 1)

\* TestRoundSummary::pass_rate
TestRoundSummary_pass_rate(summary) ==
    IF summary.total = 0 THEN Rat(0, 1) ELSE Rat(100 * summary.passed, summary.total)

RECURSIVE SumPassRates(_)
SumPassRates(sums) ==
    IF sums = <<>> THEN Rat(0, 1)
    ELSE RatAdd(TestRoundSummary_pass_rate(Head(sums)), SumPassRates(Tail(sums)))

\* BatchRunner::aggregate_results.  The overall rate of no summaries is 0.0 / 0.0.
aggregate_results(sums) ==
    LET test_stats == tally_summaries(EmptyMap, sums)
        total == SumPassRates(sums)
    IN [total_rounds |-> Len(sums),
        test_stats |-> test_stats,
        test_pass_rates |-> [tc \in DOMAIN test_stats |-> pass_rate_of(test_stats[tc])],
        overall_pass_rate |-> IF Len(sums) = 0 THEN "NaN"
                              ELSE Rat(total.num, total.den * Len(sums))]

\* The orders in which a HashMap with the keys S can be iterated.
IterOrders(S) ==
    {f \in [1 .. Cardinality(S) -> S] : \A i, j \in 1 .. Cardinality(S) : i # j => f[i] # f[j]}

\* Insertion of an entry into a sequence sorted by rate, after its equals.
RECURSIVE InsertByRate(_, _)
InsertByRate(sorted, e) ==
    IF sorted = <<>> THEN <<e>>
    ELSE IF RatLess(e.rate, Head(sorted).rate) THEN <<e>> \o sorted
    ELSE <<Head(sorted)>> \o InsertByRate(Tail(sorted), e)

\* tests.sort_by(|a, b| a.1.partial_cmp(&b.1).unwrap()), a stable sort.
RECURSIVE sort_by_rate(_)
sort_by_rate(tests) ==
    IF tests = <<>> THEN <<>>
    ELSE InsertByRate(sort_by_rate(SubSeq(tests, 1, Len(tests) - 1)), tests[Len(tests)])

\* The entries of test_pass_rates in the order of the iteration.
RateEntries(agg, iter) ==
    [i \in 1 .. Len(iter) |-> [test_case |-> iter[i], rate |-> agg.test_pass_rates[iter[i]]]]

\* A flaky_tests that returns the entries as the map gives them.
flaky_tests_unsorted(agg, iter) == RateEntries(agg, iter)

\* AggregateResult::flaky_tests, with the map iterated in the order iter.
flaky_tests(agg, iter) == sort_by_rate(RateEntries(agg, iter))

\* AggregateResult::stable_tests: the entries with rate >= 100.0.
stable_tests(agg, iter) ==
    SelectSeq(iter, LAMBDA tc : ~RatLess(agg.test_pass_rates[tc], Rat(100, 1)))

\* The lists of round summaries that are aggregated: up to MaxSummaries
\* summaries, each built by TestRoundSummary::new from the results of a round
\* over two test cases: at most one result for each test case, of any status,
\* in the order of the test numbers.
AggCases == {"HostRouting", "PathRouting"}
AggResults == [test_case : AggCases, status : {"Pass", "Fail", "Skip", "Error"}]
AggResultLists ==
    {l \in UNION {[1 .. n -> AggResults] : n \in 0 .. 2} :
        \A i, j \in 1 .. Len(l) : i < j => number(l[i].test_case) < number(l[j].test_case)}
AggInputs ==
    UNION {{[k \in 1 .. n |-> TestRoundSummary_new(k, f[k])] : f \in [1 .. n -> AggResultLists]} :
              n \in 0 .. MaxSummaries}

AggInit ==
    /\ agg_pc = "start"
    /\ agg_in \in AggInputs
    /\ aggregate = NoAggregate
    /\ flaky = <<>>
    /\ stable = <<>>

\* BatchRunner::aggregate_results(&summaries)
Aggregate ==
    /\ agg_pc = "start"
    /\ aggregate' = aggregate_results(agg_in)
    /\ agg_pc' = "aggregated"
    /\ UNCHANGED <<agg_in, flaky, stable>>
    /\ UNCHANGED NotAggVars

\* aggregate.flaky_tests()
FlakyTests ==
    /\ agg_pc = "aggregated"
    /\ \E iter \in IterOrders(DOMAIN aggregate.test_pass_rates) :
          flaky' = flaky_tests(aggregate, iter)
    /\ agg_pc' = "flaky"
    /\ UNCHANGED <<agg_in, aggregate, stable>>
    /\ UNCHANGED NotAggVars

\* aggregate.stable_tests()
StableTests ==
    /\ agg_pc = "flaky"
    /\ \E iter \in IterOrders(DOMAIN aggregate.test_pass_rates) :
          stable' = stable_tests(aggregate, iter)
    /\ agg_pc' = "done"
    /\ UNCHANGED <<agg_in, aggregate, flaky>>
    /\ UNCHANGED NotAggVars

NextAgg == Aggregate \/ FlakyTests \/ StableTests

InitAgg == BenchIdle /\ SpawnIdle /\ ExecIdle /\ AggInit /\ ErrIdle /\ ColIdle /\ PatIdle /\ PctIdle /\ IlIdle /\ PaceIdle

SpecAgg == InitAgg /\ [][NextAgg]_vars

\* The results of the summaries with the given test case and status.
ResultsWith(tc, status) ==
    {ka \in (1 .. Len(agg_in)) \X (1 .. 2) :
        /\ ka[2] <= Len(agg_in[ka[1]].results)
        /\ agg_in[ka[1]].results[ka[2]] = [test_case |-> tc, status |-> status]}

\* C11: aggregate_results gives every test case that has a result the number
\* of its results of each status over all rounds, and the pass rate
\* 100 * passes / (passes + failures + errors), skips left out, 0 when that
\* sum is 0; total_rounds is the number of summaries.
C11_AggregateReduction ==
    agg_pc # "start" =>
       /\ aggregate.total_rounds = Len(agg_in)
       /\ DOMAIN aggregate.test_stats =
             {tc \in AggCases : \E st \in {"Pass", "Fail", "Skip", "Error"} :
                                   ResultsWith(tc, st) # {}}
       /\ DOMAIN aggregate.test_pass_rates = DOMAIN aggregate.test_stats
       /\ \A tc \in DOMAIN aggregate.test_stats :
             LET st == aggregate.test_stats[tc]
                 p == Cardinality(ResultsWith(tc, "Pass"))
                 d == p + Cardinality(ResultsWith(tc, "Fail"))
                        + Cardinality(ResultsWith(tc, "Error"))
                 rate == aggregate.test_pass_rates[tc]
             IN /\ st.passes = p
                /\ st.failures = Cardinality(ResultsWith(tc, "Fail"))
                /\ st.skips = Cardinality(ResultsWith(tc, "Skip"))
                /\ st.errors = Cardinality(ResultsWith(tc, "Error"))
                /\ rate.den > 0
                /\ IF d = 0 THEN rate.num = 0 ELSE rate.num * d = 100 * p * rate.den

\* HostRouting passes in both of two rounds and gets 100; PathRouting fails
\* once and passes once and gets 50.
C11_Witness ==
    /\ agg_pc = "aggregated"
    /\ Len(agg_in) = 2
    /\ agg_in[1].results = <<[test_case |-> "HostRouting", status |-> "Pass"],
                             [test_case |-> "PathRouting", status |-> "Fail"]>>
    /\ agg_in[2].results = <<[test_case |-> "HostRouting", status |-> "Pass"],
                             [test_case |-> "PathRouting", status |-> "Pass"]>>
    /\ aggregate.total_rounds = 2
    /\ RatEq(aggregate.test_pass_rates["HostRouting"], Rat(100, 1))
    /\ RatEq(aggregate.test_pass_rates["PathRouting"], Rat(50, 1))

\* C12: flaky_tests() returns every test case of test_pass_rates exactly
\* once, with its rate, in non-decreasing order of rate; stable_tests()
\* returns, each once, exactly the test cases whose rate is 100, which are
\* those with at least one pass and no failure and no error.
C12_FlakinessRanking ==
    /\ agg_pc \in {"flaky", "done"} =>
          /\ Len(flaky) = Cardinality(DOMAIN aggregate.test_pass_rates)
          /\ \A tc \in DOMAIN aggregate.test_pass_rates :
                \E i \in 1 .. Len(flaky) :
                   flaky[i] = [test_case |-> tc, rate |-> aggregate.test_pass_rates[tc]]
          /\ \A i, j \in 1 .. Len(flaky) :
                i < j => ~RatLess(flaky[j].rate, flaky[i].rate)
    /\ agg_pc = "done" =>
          /\ \A i, j \in 1 .. Len(stable) : i # j => stable[i] # stable[j]
          /\ {stable[i] : i \in 1 .. Len(stable)} =
                {tc \in DOMAIN aggregate.test_pass_rates :
                    RatEq(aggregate.test_pass_rates[tc], Rat(100, 1))}
          /\ {stable[i] : i \in 1 .. Len(stable)} =
                {tc \in DOMAIN aggregate.test_stats :
                    /\ aggregate.test_stats[tc].passes >= 1
                    /\ aggregate.test_stats[tc].failures = 0
                    /\ aggregate.test_stats[tc].errors = 0}

\* The map was iterated with the steadier test first; flaky_tests() lists the
\* test at 50 before the test at 100, and stable_tests() is the latter alone.
C12_Witness ==
    /\ agg_pc = "done"
    /\ Len(flaky) = 2
    /\ flaky[1].test_case = "PathRouting" /\ RatEq(flaky[1].rate, Rat(50, 1))
    /\ flaky[2].test_case = "HostRouting" /\ RatEq(flaky[2].rate, Rat(100, 1))
    /\ stable = <<"HostRouting">>

------------------------------------------------------------------------------
\* ErrorStats::record called on a fresh ErrorStats, up to MaxErrCalls times,
\* with None (0) or a status code at or next to the edges of the 4xx and 5xx
\* ranges, and every combination of the two flags.

ErrStatusCodes == {0, 200, 399, 400, 499, 500, 599, 600}
ErrCalls == [status_code : ErrStatusCodes, is_timeout : BOOLEAN,
             is_connection_error : BOOLEAN]

\* ErrorStats::default()
ErrInit ==
    /\ err_stats = NoErrors
    /\ err_log = <<>>

\* errors.record(status_code, is_timeout, is_connection_error)
ErrRecord ==
    /\ Len(err_log) < MaxErrCalls
    /\ \E call \in ErrCalls :
          /\ err_stats' = ErrorStats_record(err_stats, call.status_code, call.is_timeout,
                                            call.is_connection_error)
          /\ err_log' = Append(err_log, call)
    /\ UNCHANGED NotErrVars

NextErr == ErrRecord

InitErr == BenchIdle /\ SpawnIdle /\ ExecIdle /\ AggIdle /\ ErrInit /\ ColIdle /\ PatIdle /\ PctIdle /\ IlIdle /\ PaceIdle

SpecErr == InitErr /\ [][NextErr]_vars

\* The bucket the priority timeout > connection error > status code > other
\* gives a call.
PriorityBucket(call) ==
    IF call.is_timeout THEN "timeout_errors"
    ELSE IF call.is_connection_error THEN "connection_errors"
    ELSE IF call.status_code \in 400 .. 499 THEN "client_errors"
    ELSE IF call.status_code \in 500 .. 599 THEN "server_errors"
    ELSE "other_errors"

CallsOf(bucket) == {i \in 1 .. Len(err_log) : PriorityBucket(err_log[i]) = bucket}

\* C13: every ErrorStats::record call increments exactly the one bucket the
\* priority timeout > connection error > status bucket > other gives it, so
\* each bucket counts the calls of its kind (a call with is_timeout counts as
\* a timeout whatever else it carries) and total() is the number of calls.
C13_ErrorPriority ==
    /\ \A bucket \in DOMAIN err_stats : err_stats[bucket] = Cardinality(CallsOf(bucket))
    /\ ErrorStats_total(err_stats) = Len(err_log)

\* A call with a 5xx status, the timeout flag and the connection flag all at
\* once, and a call with a 4xx status alone, have been recorded.
C13_Witness ==
    /\ Len(err_log) = 2
    /\ err_log[1] = [status_code |-> 500, is_timeout |-> TRUE, is_connection_error |-> TRUE]
    /\ err_log[2] = [status_code |-> 499, is_timeout |-> FALSE, is_connection_error |-> FALSE]
    /\ err_stats = [NoErrors EXCEPT !.timeout_errors = 1, !.client_errors = 1]

------------------------------------------------------------------------------
\* One MetricsCollector used by a single thread (SpecCol): record calls,
\* snapshot() calls and a last finalize(), while the clock that
\* start_time.elapsed() reads goes on.

ColLatencies == {1, 2}

\* MetricsCollector::new()
ColInit ==
    /\ col_pc = "open"
    /\ col_now = 0
    /\ col = MetricsCollector_new(0)
    /\ col_snaps = <<>>
    /\ col_final = NoMetrics

\* collector.record_success(latency_ms)
ColRecordSuccess ==
    /\ col_pc = "open"
    /\ request_count(col) < MaxColRecords
    /\ \E latency_ms \in ColLatencies :
          col' = record_success_store(record_success_push(col, latency_ms), col.success_count)
    /\ col_snaps' = <<>>
    /\ UNCHANGED <<col_pc, col_now, col_final>>
    /\ UNCHANGED NotColVars

\* collector.record_failure(latency_ms, status_code, is_timeout, is_connection_error)
ColRecordFailure ==
    /\ col_pc = "open"
    /\ request_count(col) < MaxColRecords
    /\ \E latency_ms \in ColLatencies, status_code \in {0, 404, 500},
          is_timeout \in BOOLEAN, is_connection_error \in BOOLEAN :
          col' = record_failure_store(record_failure_push(col, latency_ms), col.fail_count,
                                      status_code, is_timeout, is_connection_error)
    /\ col_snaps' = <<>>
    /\ UNCHANGED <<col_pc, col_now, col_final>>
    /\ UNCHANGED NotColVars

\* collector.snapshot()
ColSnapshot ==
    /\ col_pc = "open"
    /\ Len(col_snaps) < MaxSnapshots
    /\ col_snaps' = Append(col_snaps, snapshot(col, col_now))
    /\ UNCHANGED <<col_pc, col, col_now, col_final>>
    /\ UNCHANGED NotColVars

\* collector.finalize(), which consumes the collector
ColFinalize ==
    /\ col_pc = "open"
    /\ col_final' = finalize(col, col_now)
    /\ col_pc' = "finalized"
    /\ UNCHANGED <<col, col_now, col_snaps>>
    /\ UNCHANGED NotColVars

\* Time passes between two calls.
ColTick ==
    /\ col_pc = "open"
    /\ col_now < MaxColClock
    /\ col_now' = col_now + 1
    /\ UNCHANGED <<col_pc, col, col_snaps, col_final>>
    /\ UNCHANGED NotColVars

NextCol == ColRecordSuccess \/ ColRecordFailure \/ ColSnapshot \/ ColFinalize \/ ColTick

InitCol == BenchIdle /\ SpawnIdle /\ ExecIdle /\ AggIdle /\ ErrIdle /\ ColInit /\ PatIdle /\ PctIdle /\ IlIdle /\ PaceIdle

SpecCol == InitCol /\ [][NextCol]_vars

\* C14: the Metrics that snapshot() returns with no record call in between
\* are all the same (latency, throughput with rps and duration, errors), and
\* finalize() with no write after the last snapshot() returns what that
\* snapshot returned.
C14_SnapshotIdempotent ==
    /\ \A i, j \in 1 .. Len(col_snaps) : col_snaps[i] = col_snaps[j]
    /\ (col_pc = "finalized" /\ col_snaps # <<>>) => col_final = col_snaps[Len(col_snaps)]

\* A Metrics value whose counts agree with each other and with the collector
\* it was taken from.
Reconciled(m) ==
    /\ m.throughput.successful_requests + m.throughput.failed_requests
          = m.throughput.total_requests
    /\ ErrorStats_total(m.errors) = m.throughput.failed_requests
    /\ m.throughput.successful_requests = col.success_count
    /\ m.throughput.failed_requests = col.fail_count
    /\ m.throughput.total_requests = Len(col.latencies)

\* C28: in every Metrics that snapshot() or finalize() returns after any
\* sequence of record_success and record_failure calls, successful + failed
\* requests are the total requests (one per recorded call) and the error
\* buckets sum to the failed requests.
C28_CountReconciliation ==
    /\ \A i \in 1 .. Len(col_snaps) : Reconciled(col_snaps[i])
    /\ col_pc = "finalized" => Reconciled(col_final)

\* finalize() after a success and a failure, the failure in one bucket.
C28_Witness ==
    /\ col_pc = "finalized"
    /\ col_final.throughput.successful_requests = 1
    /\ col_final.throughput.failed_requests = 1
    /\ col_final.errors.client_errors = 1
    /\ col_snaps # <<>>
    /\ Reconciled(col_snaps[Len(col_snaps)])

------------------------------------------------------------------------------
\* LoadPattern::rps_at of one pattern, evaluated at instants that do not
\* decrease, as the worker loop does (SpecPat).

\* Step patterns: with and without a step, an interval of 10 s or none, and a
\* step large enough for start_rps + steps * step_rps to leave u32.
StepPatterns ==
    {[kind |-> "Step", start_rps |-> s, step_rps |-> d, step_interval_secs |-> i, max_rps |-> m] :
        s \in {0, 100}, d \in {0, 50, 20000}, i \in {0, 10}, m \in {300, 30000}}

\* Ramp patterns: up, down and flat, over 30 s, 60 s, 100 s and 0 s.
RampPatterns ==
    {[kind |-> "Ramp", start_rps |-> s, end_rps |-> e, duration_secs |-> d] :
        s \in {0, 100, 200}, e \in {0, 100, 200}, d \in {0, 30, 60, 100}}

\* Spike patterns: no spike, a spike of 10 s, and one that outlasts the run.
SpikePatterns ==
    {[kind |-> "Spike", base_rps |-> 50, spike_rps |-> 200, spike_duration_secs |-> d] :
        d \in {0, 10, 50}}

PatTotals == {50 * MsPerSec, 60 * MsPerSec}

PatInit ==
    /\ pat_pc = "ready"
    /\ pat \in StepPatterns \cup RampPatterns \cup SpikePatterns
    /\ pat_total \in PatTotals
    /\ pat_build \in {"debug", "release"}
    /\ pat_prev = NoEval
    /\ pat_cur = NoEval

\* pattern.rps_at(elapsed_secs, total_duration_secs); with overflow checks
\* the u32 arithmetic of Step panics where it would wrap without them.
PatEval ==
    /\ pat_pc \in {"ready", "evaluated"}
    /\ \E k \in 0 .. MaxPatTicks :
          LET elapsed == k * TickMs
          IN /\ elapsed >= pat_cur.elapsed
             /\ IF pat.kind = "Step" /\ pat_build = "debug" /\ StepOverflows(pat, elapsed)
                THEN /\ pat_pc' = "panicked"
                     /\ pat_prev' = pat_cur
                     /\ pat_cur' = [elapsed |-> elapsed, rps |-> -1]
                ELSE /\ pat_pc' = "evaluated"
                     /\ pat_prev' = pat_cur
                     /\ pat_cur' = [elapsed |-> elapsed, rps |-> rps_at(pat, elapsed, pat_total)]
    /\ UNCHANGED <<pat, pat_total, pat_build>>
    /\ UNCHANGED NotPatVars

NextPat == PatEval

InitPat == BenchIdle /\ SpawnIdle /\ ExecIdle /\ AggIdle /\ ErrIdle /\ ColIdle /\ PatInit /\ PctIdle /\ IlIdle /\ PaceIdle

SpecPat == InitPat /\ [][NextPat]_vars

\* C15: a Step pattern gives min(start_rps + floor(elapsed /
\* step_interval_secs) * step_rps, max_rps) at every instant, never more than
\* max_rps and never less than at an earlier instant, also where
\* start_rps + steps * step_rps is beyond u32.
C15_StepFormula ==
    pat_pc # "off" /\ pat.kind = "Step" =>
       /\ pat_pc # "panicked"
       /\ pat_pc = "evaluated" =>
             /\ pat.step_interval_secs > 0 =>
                   pat_cur.rps =
                      Min(pat.start_rps
                            + (pat_cur.elapsed \div (pat.step_interval_secs * MsPerSec))
                                 * pat.step_rps,
                          pat.max_rps)
             /\ pat_cur.rps <= pat.max_rps
             /\ pat_prev.rps # -1 => pat_prev.rps <= pat_cur.rps

\* The interpolation start_rps + (end_rps - start_rps) * min(elapsed /
\* duration_secs, 1) in exact arithmetic, truncated.
RampExact(p, elapsed) ==
    LET d == p.duration_secs * MsPerSec
    IN (p.start_rps * d + (p.end_rps - p.start_rps) * Min(elapsed, d)) \div d

\* C16 as amended: with duration_secs > 0 a Ramp pattern gives start_rps at
\* elapsed 0, end_rps from duration_secs on, always a rate between the two,
\* and never a rate that is more than 1 away from the exact interpolation;
\* with duration_secs = 0 it gives end_rps at every instant.
C16_RampInterpolation ==
    pat_pc = "evaluated" /\ pat.kind = "Ramp" =>
       /\ pat.duration_secs = 0 => pat_cur.rps = pat.end_rps
       /\ pat.duration_secs > 0 =>
             /\ pat_cur.elapsed = 0 => pat_cur.rps = pat.start_rps
             /\ pat_cur.elapsed >= pat.duration_secs * MsPerSec => pat_cur.rps = pat.end_rps
             /\ pat_cur.rps - RampExact(pat, pat_cur.elapsed) \in {-1, 0, 1}
       /\ pat_cur.rps >= Min(pat.start_rps, pat.end_rps)
       /\ pat_cur.rps <= Max(pat.start_rps, pat.end_rps)

\* A ramp down from 200 to 100 over 30 s was evaluated at 15 s and then
\* past its end, at 35 s.
C16_Witness ==
    /\ pat_pc = "evaluated"
    /\ pat = [kind |-> "Ramp", start_rps |-> 200, end_rps |-> 100, duration_secs |-> 30]
    /\ pat_prev = [elapsed |-> 15 * MsPerSec, rps |-> 150]
    /\ pat_cur = [elapsed |-> 35 * MsPerSec, rps |-> 100]

\* C16 as stated: a Ramp pattern gives the truncated interpolation, which is
\* start_rps at elapsed 0 and end_rps from duration_secs on, and lies between
\* the two, whatever the pattern.
C16_RampAsStated ==
    pat_pc = "evaluated" /\ pat.kind = "Ramp" =>
       /\ pat.duration_secs > 0 => pat_cur.rps = RampExact(pat, pat_cur.elapsed)
       /\ pat_cur.elapsed = 0 => pat_cur.rps = pat.start_rps
       /\ pat_cur.elapsed >= pat.duration_secs * MsPerSec => pat_cur.rps = pat.end_rps
       /\ pat_cur.rps >= Min(pat.start_rps, pat.end_rps)
       /\ pat_cur.rps <= Max(pat.start_rps, pat.end_rps)

\* The instant is within the window [total / 3, total / 3 + spike_duration_secs).
InSpikeWindow(p, elapsed, total) ==
    /\ 3 * elapsed >= total
    /\ 3 * elapsed < total + 3 * p.spike_duration_secs * MsPerSec

\* C17: at every instant of the run a Spike pattern gives spike_rps inside
\* the window that begins at a third of the run and lasts
\* spike_duration_secs, and base_rps outside; a window that reaches beyond
\* the run gives spike_rps from the third of the run to its end.
C17_SpikeWindow ==
    (pat_pc = "evaluated" /\ pat.kind = "Spike" /\ pat_cur.elapsed <= pat_total) =>
       /\ pat_cur.rps = IF InSpikeWindow(pat, pat_cur.elapsed, pat_total)
                        THEN pat.spike_rps ELSE pat.base_rps
       /\ (/\ pat_total + 3 * pat.spike_duration_secs * MsPerSec > 3 * pat_total
           /\ 3 * pat_cur.elapsed >= pat_total) => pat_cur.rps = pat.spike_rps

\* In a run of 50 s with a spike of 10 s, rps_at gave the base rate at 15 s,
\* before the third of the run (16.67 s), and the spike rate at 20 s.
C17_Witness ==
    /\ pat_pc = "evaluated"
    /\ pat.kind = "Spike" /\ pat.spike_duration_secs = 10
    /\ pat_total = 50 * MsPerSec
    /\ pat_prev = [elapsed |-> 15 * MsPerSec, rps |-> pat.base_rps]
    /\ pat_cur = [elapsed |-> 20 * MsPerSec, rps |-> pat.spike_rps]

------------------------------------------------------------------------------
\* LatencyStats::from_samples on a list of latency samples (SpecPct).

\* Latencies of 1.0, 1.1, 1.5, 1.7 and 3.0 ms, as the f64 nearest to them.
PctLatencies == {FRound(Rat(k, 10)) : k \in {10, 11, 15, 17, 30}}

PctInit ==
    /\ pct_pc = "samples"
    /\ pct_samples \in UNION {[1 .. n -> PctLatencies] : n \in 0 .. MaxSamples}
    /\ pct_stats = <<>>

\* LatencyStats::from_samples(&samples)
PctFromSamples ==
    /\ pct_pc = "samples"
    /\ pct_stats' = LatencyStats_from_f64_samples(pct_samples)
    /\ pct_pc' = "computed"
    /\ UNCHANGED pct_samples
    /\ UNCHANGED NotPctVars

NextPct == PctFromSamples

InitPct == BenchIdle /\ SpawnIdle /\ ExecIdle /\ AggIdle /\ ErrIdle /\ ColIdle /\ PatIdle /\ PctInit /\ IlIdle /\ PaceIdle

SpecPct == InitPct /\ [][NextPct]_vars

RatLeq(a, b) == ~RatLess(b, a)

\* C18: the percentiles of a LatencyStats are 0 for no sample and the sample
\* itself for a single one, and always min <= p50 <= p90 <= p95 <= p99 <=
\* p999 <= max.
C18_PercentileOrder ==
    pct_pc = "computed" =>
       LET st == pct_stats
           pc == st.percentiles
       IN /\ st.count = 0 => \A f \in DOMAIN pc : RatEq(pc[f], Rat(0, 1))
          /\ st.count = 1 => \A f \in DOMAIN pc : RatEq(pc[f], pct_samples[1])
          /\ RatLeq(st.min, pc.p50)
          /\ RatLeq(pc.p50, pc.p90)
          /\ RatLeq(pc.p90, pc.p95)
          /\ RatLeq(pc.p95, pc.p99)
          /\ RatLeq(pc.p99, pc.p999)
          /\ RatLeq(pc.p999, st.max)

------------------------------------------------------------------------------
\* The record calls of concurrent workers on one collector, in every order
\* the mutex can serialize them, and a snapshot() (SpecIl).  A record call is
\* one step here: the mutex makes it one (C1).

\* What a worker's request came to and the latency_ms it measured: 200 after
\* 1.0 or 1.1 ms, 500 after 1.7 ms, a failure of the transport after 1.1 ms
\* (the f64 nearest to each).
IlResult(status_code, error, tenths) ==
    [result |-> [status_code |-> status_code, error |-> error],
     latency_ms |-> FRound(Rat(tenths, 10))]
IlResults ==
    {IlResult(200, "none", 10), IlResult(200, "none", 11), IlResult(500, "none", 17),
     IlResult(0, "Connect", 11)}

IlWorkers == 1 .. MaxIlWorkers

IlInit ==
    /\ il_pc = "recording"
    /\ il_results \in [IlWorkers -> IlResults]
    /\ il_order = <<>>
    /\ il_col = MetricsCollector_new(0)
    /\ il_metrics = <<>>

\* The worker's `match result { .. }` under the guard: the whole record call.
worker_record(c, result, latency_ms) ==
    worker_record_store(worker_record_push(c, result, latency_ms), result,
                        worker_record_load(c, result))

\* Worker w takes the mutex, records the outcome of its request and drops
\* the guard.
IlRecord(w) ==
    /\ il_pc = "recording"
    /\ \A i \in 1 .. Len(il_order) : il_order[i] # w
    /\ il_col' = worker_record(il_col, il_results[w].result, il_results[w].latency_ms)
    /\ il_order' = Append(il_order, w)
    /\ UNCHANGED <<il_pc, il_results, il_metrics>>
    /\ UNCHANGED NotIlVars

\* collector.lock().await.snapshot(), one clock step after the collector
\* was created.
IlSnapshot ==
    /\ il_pc = "recording"
    /\ il_metrics' = snapshot_f64(il_col, TickMs)
    /\ il_pc' = "snapshot"
    /\ UNCHANGED <<il_results, il_order, il_col>>
    /\ UNCHANGED NotIlVars

NextIl == (\E w \in IlWorkers : IlRecord(w)) \/ IlSnapshot

InitIl == BenchIdle /\ SpawnIdle /\ ExecIdle /\ AggIdle /\ ErrIdle /\ ColIdle /\ PatIdle /\ PctIdle /\ IlInit /\ PaceIdle

SpecIl == InitIl /\ [][NextIl]_vars

\* The collector after the record calls of the workers of `order`, in that order.
RECURSIVE Replay(_)
Replay(order) ==
    IF order = <<>> THEN MetricsCollector_new(0)
    ELSE LET w == order[Len(order)]
         IN worker_record(Replay(SubSeq(order, 1, Len(order) - 1)),
                          il_results[w].result, il_results[w].latency_ms)

\* C21: the Metrics of a snapshot are those of the collector that got the
\* same outcomes in the order of the workers' numbers, whatever the order in
\* which the record calls were serialized: the same latency statistics (min,
\* max, mean, percentiles, count), counts of successes and failures and
\* error buckets.
C21_InterleavingIndependence ==
    il_pc = "snapshot" =>
       LET canonical == snapshot_f64(Replay(SortAsc(il_order)), TickMs)
       IN /\ il_metrics.latency.count = canonical.latency.count
          /\ RatEq(il_metrics.latency.min, canonical.latency.min)
          /\ RatEq(il_metrics.latency.max, canonical.latency.max)
          /\ RatEq(il_metrics.latency.mean, canonical.latency.mean)
          /\ \A f \in DOMAIN Percentiles_default :
                RatEq(il_metrics.latency.percentiles[f], canonical.latency.percentiles[f])
          /\ il_metrics.throughput.successful_requests = canonical.throughput.successful_requests
          /\ il_metrics.throughput.failed_requests = canonical.throughput.failed_requests
          /\ il_metrics.errors = canonical.errors

\* Three workers recorded in an order that is not the order of their numbers,
\* successes and failures among them, with latencies whose f64 sum in order
\* of arrival is not their sum in the other order; then the snapshot.
C21_Witness ==
    /\ il_pc = "snapshot"
    /\ Len(il_order) = 3
    /\ il_order # SortAsc(il_order)
    /\ il_metrics.throughput.successful_requests > 0
    /\ il_metrics.errors.server_errors > 0
    /\ il_metrics.errors.connection_errors > 0
    /\ ~RatEq(FSum(il_col.latencies), FSum(Replay(SortAsc(il_order)).latencies))

------------------------------------------------------------------------------
\* The pacing of run_rate_limited on a clock of quarter seconds (SpecPace):
\* the workers of one run, each with its own loop of request, record call and
\* sleep; `running` stays true and the record call is left out.

PaceTickMs == MsPerSec \div 4

\* Runs of 2 s at a constant 2 or 4 requests per second, or stepping from 2
\* to 4 after a second, with 1 to 3 workers.
PacePatterns ==
    {[kind |-> "Constant", rps |-> 2], [kind |-> "Constant", rps |-> 4],
     [kind |-> "Step", start_rps |-> 2, step_rps |-> 2, step_interval_secs |-> 1,
      max_rps |-> 4]}
PaceConfigs ==
    {[pattern |-> p, concurrency |-> c, duration_secs |-> 2] :
        p \in PacePatterns, c \in 1 .. 3}

PaceWorkers == 1 .. Min(pace_cfg.concurrency, HardCap)
PaceDurationMs == pace_cfg.duration_secs * MsPerSec

PaceInit ==
    /\ pace_cfg \in PaceConfigs
    /\ pace_now = 0
    /\ pace_workers = [w \in PaceWorkers |-> [pc |-> "loop", delay_ms |-> 0, wake_at |-> 0]]
    /\ pace_sent = <<>>

\* The head of the loop: the deadline check, the target rate of this instant
\* and its delay, and the request is sent.
PaceIter(w) ==
    /\ pace_workers[w].pc = "loop"
    /\ IF pace_now >= PaceDurationMs
       THEN /\ pace_workers' = [pace_workers EXCEPT ![w].pc = "exit"]
            /\ UNCHANGED pace_sent
       ELSE /\ Len(pace_sent) < MaxPaceReq
            /\ pace_workers' = [pace_workers EXCEPT
                   ![w].pc = "inflight",
                   ![w].delay_ms = delay_ms(rps_at(pace_cfg.pattern, pace_now, PaceDurationMs))]
            /\ pace_sent' = Append(pace_sent, pace_now)
    /\ UNCHANGED <<pace_cfg, pace_now>>
    /\ UNCHANGED NotPaceVars

\* The response (or the error) is there and recorded; the worker sleeps for
\* delay_ms when that is more than 0.
PaceResponse(w) ==
    /\ pace_workers[w].pc = "inflight"
    /\ pace_workers' = [pace_workers EXCEPT
           ![w].pc = IF pace_workers[w].delay_ms > 0 THEN "sleep" ELSE "loop",
           ![w].delay_ms = 0,
           ![w].wake_at = IF pace_workers[w].delay_ms > 0
                          THEN pace_now + pace_workers[w].delay_ms ELSE 0]
    /\ UNCHANGED <<pace_cfg, pace_now, pace_sent>>
    /\ UNCHANGED NotPaceVars

\* The sleep is over.
PaceWake(w) ==
    /\ pace_workers[w].pc = "sleep"
    /\ pace_now >= pace_workers[w].wake_at
    /\ pace_workers' = [pace_workers EXCEPT ![w].pc = "loop", ![w].wake_at = 0]
    /\ UNCHANGED <<pace_cfg, pace_now, pace_sent>>
    /\ UNCHANGED NotPaceVars

PaceRunnable(w) ==
    \/ pace_workers[w].pc = "loop"
          /\ (pace_now >= PaceDurationMs \/ Len(pace_sent) < MaxPaceReq)
    \/ pace_workers[w].pc = "sleep" /\ pace_now >= pace_workers[w].wake_at

\* The clock advances by a quarter of a second once no worker can take a
\* step of its own; a request in flight may take any number of clock steps.
PaceTick ==
    /\ pace_now < MaxPaceTicks * PaceTickMs
    /\ \E w \in PaceWorkers : pace_workers[w].pc # "exit"
    /\ \A w \in PaceWorkers : ~PaceRunnable(w)
    /\ pace_now' = pace_now + PaceTickMs
    /\ UNCHANGED <<pace_cfg, pace_workers, pace_sent>>
    /\ UNCHANGED NotPaceVars

NextPace ==
    \/ \E w \in PaceWorkers : PaceIter(w)
    \/ \E w \in PaceWorkers : PaceResponse(w)
    \/ \E w \in PaceWorkers : PaceWake(w)
    \/ PaceTick

InitPace == BenchIdle /\ SpawnIdle /\ ExecIdle /\ AggIdle /\ ErrIdle /\ ColIdle /\ PatIdle /\ PctIdle /\ IlIdle /\ PaceInit

SpecPace == InitPace /\ [][NextPace]_vars

\* The requests sent in the second that begins with request i.
SentWithinSecond(i) ==
    {j \in i .. Len(pace_sent) : pace_sent[j] < pace_sent[i] + MsPerSec}

\* The highest target rate the pattern gives at the instant of one of them.
TargetWithin(S) ==
    LET rates == {rps_at(pace_cfg.pattern, pace_sent[j], PaceDurationMs) : j \in S}
    IN CHOOSE r \in rates : \A q \in rates : q <= r

\* C26: the requests all workers together send within any one second are at
\* most the pattern's target rate for that second, plus one per worker.
C26_TrafficFollowsShape ==
    \A i \in 1 .. Len(pace_sent) :
       Cardinality(SentWithinSecond(i))
          <= TargetWithin(SentWithinSecond(i)) + Cardinality(PaceWorkers)

====
